---- MODULE Spec2Model ----
(***************************************************************************)
(* Model of the read-only Twitter/X API v2 client: the resilient request   *)
(* pipeline of createXApiClient (timeout, retry, rate-limit warning, error *)
(* classification), the includes merge, the thread builder and the public  *)
(* operations built on them.                                               *)
(***************************************************************************)
EXTENDS Integers, Sequences, FiniteSets, TLC

VARIABLES
    req,        \* the logical request being executed by request(): pc, attempt, result
    calls,      \* history: the transport (fetchFn) outcomes of the logical request, in order
    warnings,   \* the logger.warn records x-api:rateLimit:low emitted for the request
    req2,       \* a second execution of the same logical request (paired runs)
    warnings2,  \* the warnings of the second execution
    calls2,     \* history: the transport outcomes of the second logical request
    client,     \* what createXApiClient(config) captured: bearerToken
    merge,      \* one application of the includes merge: its input and what it returned
    transport,  \* history: the number of fetchFn calls made through the client
    cin,        \* input of the error classifier: [status, body]
    cout,       \* output of the error classifier (NoError before it ran)
    args,       \* the call buildThread(request, tweetId, maxResults, fields) and Date.now()
    world,      \* what the server behind the RequestFn may answer
    thread,     \* the locals of buildThread and its position
    sent,       \* history: the requests buildThread issued, in order
    thread2,    \* a second execution of buildThread (paired runs)
    sent2,      \* the requests of the second execution
    op          \* a public operation of the client: its position, requests and outcome

threadVars == <<args, world, thread, sent, thread2, sent2, op>>

\* What the executions of requests, threads and operations leave alone.
otherVars == <<calls2, client, merge, transport>>

vars == <<req, calls, warnings, req2, warnings2, cin, cout, otherVars, args, world,
          thread, sent, thread2, sent2, op>>

(***************************************************************************)
(* Values                                                                  *)
(***************************************************************************)

\* null / undefined of the source
Null == "null"

maxAttemptsOneMore == 3 + 1

\* retry options of request(): { maxAttempts: 3, ... }
maxAttempts == 3

\* the low-water mark of the remaining-quota header: Number(remaining) < 3
LOW_QUOTA == 3

\* Error bodies on the wire. json: JSON.parse succeeds; detail: parsed.detail;
\* errors: the message fields of parsed.errors, in order.
ErrorBodies ==
    { [raw |-> "{detail}", json |-> TRUE,  detail |-> "Too Many Requests", errors |-> <<>>],
      [raw |-> "{errors}", json |-> TRUE,  detail |-> Null, errors |-> <<"first", "second">>],
      [raw |-> "{}",       json |-> TRUE,  detail |-> Null, errors |-> <<>>],
      [raw |-> "<html>",   json |-> FALSE, detail |-> Null, errors |-> <<>>] }

\* The error bodies the transport of the request model answers with.
WireErrorBodies == { b \in ErrorBodies : b.raw \in {"{detail}", "<html>"} }

\* Success bodies: two envelopes that parse and one body that does not.
OkBodies == { [raw |-> "envelope1", json |-> TRUE,  detail |-> Null, errors |-> <<>>],
              [raw |-> "envelope2", json |-> TRUE,  detail |-> Null, errors |-> <<>>],
              [raw |-> "garbled",   json |-> FALSE, detail |-> Null, errors |-> <<>>] }

\* HTTP statuses the transport of the request model answers with.
WireStatuses == {200, 400, 401, 403, 404, 429, 500, 503}

\* Every HTTP status a Response can carry.
AllStatuses == 100..599

\* x-rate-limit-remaining / x-rate-limit-reset as headers.get returns them
\* (Null: header absent).
Headers ==
    { [remaining |-> Null,  reset |-> Null],
      [remaining |-> "",    reset |-> Null],
      [remaining |-> "abc", reset |-> "1700000000"],
      [remaining |-> "0",   reset |-> "1700000000"],
      [remaining |-> "2",   reset |-> Null],
      [remaining |-> "3",   reset |-> "1700000000"],
      [remaining |-> "10",  reset |-> Null] }

\* What getErrorCategory of @side-quest/core may answer for an error that is
\* neither a TimeoutError nor a TwitterApiError.
GenericCategories == {"transient", "unknown"}

\* Number(remaining) of JavaScript on the header values of the model: a
\* string that is no number converts to NaN, the empty string and null to 0.
IsNaN(s) == s \notin {Null, "", "0", "2", "3", "10"}

Number(s) ==
    CASE s = Null -> 0
      [] s = ""   -> 0
      [] s = "0"  -> 0
      [] s = "2"  -> 2
      [] s = "3"  -> 3
      [] s = "10" -> 10

\* a && b on a header string: null and "" are falsy, every other string truthy.
Truthy(s) == s # Null /\ s # ""

\* Number(s) < n of JavaScript: false when Number(s) is NaN.
NumberLessThan(s, n) == ~IsNaN(s) /\ Number(s) < n

\* response.ok
Ok(status) == status >= 200 /\ status <= 299

(***************************************************************************)
(* Error classifier                                                        *)
(***************************************************************************)

\* detail = parsed?.detail ?? parsed?.errors?.[0]?.message ?? body, and the
\* raw body when JSON.parse throws.
Detail(body) ==
    IF ~body.json THEN body.raw
    ELSE IF body.detail # Null THEN body.detail
    ELSE IF Len(body.errors) > 0 THEN body.errors[1]
    ELSE body.raw

TwitterApiError(prefix, code, detail, suffix, status, category) ==
    [type |-> "TwitterApiError", status |-> status, category |-> category,
     message |-> [prefix |-> prefix, code |-> code, detail |-> detail, suffix |-> suffix]]

parseTwitterErrorAbove500(status, body) ==
    IF status = 429 THEN TwitterApiError("Rate limited", 0, Detail(body), "", status, "transient")
    ELSE IF status = 401 THEN TwitterApiError("Auth failed", 0, Detail(body), "", status, "configuration")
    ELSE IF status = 403 THEN TwitterApiError("Forbidden", 0, Detail(body), "(check API tier)", status, "configuration")
    ELSE IF status = 404 THEN TwitterApiError("Not found", 0, Detail(body), "", status, "permanent")
    ELSE IF status > 500 THEN TwitterApiError("Server error", status, Detail(body), "", status, "transient")
    ELSE TwitterApiError("API error", status, Detail(body), "", status, "permanent")

parseTwitterError(status, body) ==
    IF status = 429 THEN TwitterApiError("Rate limited", 0, Detail(body), "", status, "transient")
    ELSE IF status = 401 THEN TwitterApiError("Auth failed", 0, Detail(body), "", status, "configuration")
    ELSE IF status = 403 THEN TwitterApiError("Forbidden", 0, Detail(body), "(check API tier)", status, "configuration")
    ELSE IF status = 404 THEN TwitterApiError("Not found", 0, Detail(body), "", status, "permanent")
    ELSE IF status >= 500 THEN TwitterApiError("Server error", status, Detail(body), "", status, "transient")
    ELSE TwitterApiError("API error", status, Detail(body), "", status, "permanent")

\* The TimeoutError withTimeout rejects with.
TimeoutError ==
    [type |-> "TimeoutError", status |-> 0, category |-> Null,
     message |-> [prefix |-> "Twitter API timeout", code |-> 0, detail |-> "", suffix |-> ""]]

\* Any other Error: a rejection of the transport, or the SyntaxError of
\* response.json(). generic: what getErrorCategory answers for it.
GenericError(what, generic) ==
    [type |-> "Error", status |-> 0, category |-> generic,
     message |-> [prefix |-> what, code |-> 0, detail |-> "", suffix |-> ""]]

\* getErrorCategory of @side-quest/core: its answer for the error.
getErrorCategory(error) == error.category

NoError ==
    [type |-> "none", status |-> 0, category |-> Null,
     message |-> [prefix |-> "", code |-> 0, detail |-> "", suffix |-> ""]]

(***************************************************************************)
(* Data model (types.ts). An optional field is <<>> when absent and <<v>>  *)
(* when present; an optional string is Null when absent.                   *)
(***************************************************************************)

Absent == <<>>
Some(x) == <<x>>
IsSome(o) == Len(o) > 0

User(id, name) == [id |-> id, name |-> name, username |-> id]

Tweet(id, text, author_id, conversation_id, created_at, referenced_tweets) ==
    [id |-> id, text |-> text, author_id |-> author_id,
     conversation_id |-> conversation_id, created_at |-> created_at,
     referenced_tweets |-> referenced_tweets]

(***************************************************************************)
(* Includes merge                                                          *)
(***************************************************************************)

\* includes?.users and includes?.tweets: the array, or nothing to map.
IncludedUsers(includes) ==
    IF IsSome(includes) /\ IsSome(includes[1].users) THEN includes[1].users[1] ELSE <<>>

IncludedTweets(includes) ==
    IF IsSome(includes) /\ IsSome(includes[1].tweets) THEN includes[1].tweets[1] ELSE <<>>

\* new Map(entries.map((e) => [e.id, e])): a later entry replaces an earlier
\* one with the same id.
MapOf(entries) ==
    [k \in { entries[i].id : i \in 1..Len(entries) } |->
        LET last == CHOOSE i \in 1..Len(entries) :
                        /\ entries[i].id = k
                        /\ \A j \in 1..Len(entries) : entries[j].id = k => j <= i
        IN entries[last]]

\* map.get(key): the entry, or undefined.
MapGet(map, key) == IF key \in DOMAIN map THEN Some(map[key]) ELSE Absent

buildMaps(includes) ==
    [userMap |-> MapOf(IncludedUsers(includes)),
     tweetMap |-> MapOf(IncludedTweets(includes))]

enrichTweetAnyReference(tweet, userMap, tweetMap) ==
    [id |-> tweet.id, text |-> tweet.text, author_id |-> tweet.author_id,
     conversation_id |-> tweet.conversation_id, created_at |-> tweet.created_at,
     referenced_tweets |-> tweet.referenced_tweets,
     author |-> IF tweet.author_id # Null /\ tweet.author_id # ""
                THEN MapGet(userMap, tweet.author_id) ELSE Absent,
     referenced_tweet_data |->
        IF IsSome(tweet.referenced_tweets)
           /\ \E i \in 1..Len(tweet.referenced_tweets[1]) :
                tweet.referenced_tweets[1][i].id \in DOMAIN tweetMap
        THEN LET refs == tweet.referenced_tweets[1]
                 i == CHOOSE k \in 1..Len(refs) : refs[k].id \in DOMAIN tweetMap
             IN MapGet(tweetMap, refs[i].id)
        ELSE Absent]

enrichTweet(tweet, userMap, tweetMap) ==
    [id |-> tweet.id, text |-> tweet.text, author_id |-> tweet.author_id,
     conversation_id |-> tweet.conversation_id, created_at |-> tweet.created_at,
     referenced_tweets |-> tweet.referenced_tweets,
     author |-> IF tweet.author_id # Null /\ tweet.author_id # ""
                THEN MapGet(userMap, tweet.author_id) ELSE Absent,
     referenced_tweet_data |->
        IF IsSome(tweet.referenced_tweets) /\ Len(tweet.referenced_tweets[1]) > 0
        THEN MapGet(tweetMap, tweet.referenced_tweets[1][1].id) ELSE Absent]

mergeSingleTweet(response) ==
    LET maps == buildMaps(response.includes)
    IN enrichTweet(response.data, maps.userMap, maps.tweetMap)

mergeTweetListOnlyAuthored(response) ==
    IF ~IsSome(response.data) THEN <<>>
    ELSE LET maps == buildMaps(response.includes)
             data == response.data[1]
             all == [i \in 1..Len(data) |-> enrichTweet(data[i], maps.userMap, maps.tweetMap)]
             authored(item) == IsSome(item.author)
         IN SelectSeq(all, authored)

mergeTweetList(response) ==
    IF ~IsSome(response.data) THEN <<>>
    ELSE LET maps == buildMaps(response.includes)
             data == response.data[1]
         IN [i \in 1..Len(data) |-> enrichTweet(data[i], maps.userMap, maps.tweetMap)]

MergeFunctions == {"mergeSingleTweet", "mergeTweetList"}

MergeCallInPlace(fn, response) ==
    IF fn = "mergeSingleTweet"
    THEN [returned |-> <<mergeSingleTweet(response)>>,
          response |-> [response EXCEPT !.data = mergeSingleTweet(response)]]
    ELSE [returned |-> mergeTweetList(response),
          response |-> IF IsSome(response.data)
                       THEN [response EXCEPT !.data = Some(mergeTweetList(response))]
                       ELSE response]

\* One call of a merge function: the items it returns (a single item as a
\* sequence of one) and the response as the call leaves it. Nothing writes
\* to the response: buildMaps fills new Maps and enrichTweet spreads the
\* tweet into a new object.
MergeCall(fn, response) ==
    [returned |-> IF fn = "mergeSingleTweet" THEN <<mergeSingleTweet(response)>>
                                             ELSE mergeTweetList(response),
     response |-> response]

\* No merge function has been applied.
NoMerge ==
    [pc |-> "idle", fn |-> Null, response |-> Absent, after |-> Absent, out |-> <<>>,
     again |-> <<>>, reordered |-> Absent, outReordered |-> <<>>]

InitMergeIdle == merge = NoMerge

(***************************************************************************)
(* Array.prototype.sort with the comparator of buildThread                 *)
(***************************************************************************)

\* (a, b) => !a.created_at || !b.created_at ? 0 : time(a) - time(b)
compare(a, b) ==
    IF ~IsSome(a.created_at) \/ ~IsSome(b.created_at) THEN 0
    ELSE a.created_at[1] - b.created_at[1]

Min(a, b) == IF a < b THEN a ELSE b
Max(a, b) == IF a > b THEN a ELSE b

\* JavaScriptCore (Bun): a bottom-up merge sort; a merge takes the right
\* element only when the comparator puts it before the left one.
RECURSIVE Merge(_, _)
Merge(left, right) ==
    IF Len(right) = 0 THEN left
    ELSE IF Len(left) = 0 THEN right
    ELSE IF compare(right[1], left[1]) < 0
         THEN <<right[1]>> \o Merge(left, Tail(right))
         ELSE <<left[1]>> \o Merge(Tail(left), right)

RECURSIVE MergePass(_, _)
MergePass(s, width) ==
    IF Len(s) <= width THEN s
    ELSE Merge(SubSeq(s, 1, width), SubSeq(s, width + 1, Min(2 * width, Len(s))))
            \o MergePass(SubSeq(s, 2 * width + 1, Len(s)), width)

RECURSIVE MergeSortFrom(_, _)
MergeSortFrom(s, width) ==
    IF width >= Len(s) THEN s ELSE MergeSortFrom(MergePass(s, width), 2 * width)

MergeSort(s) == MergeSortFrom(s, 1)

\* V8 (Node): TimSort, which on an array shorter than 64 finds the run the
\* array starts with (reversing it when strictly descending) and inserts
\* the remaining elements by binary search.
RECURSIVE RunLength(_, _, _)
RunLength(s, i, descending) ==
    IF i > Len(s) THEN i - 1
    ELSE LET order == compare(s[i], s[i - 1]) IN
         IF (descending /\ order >= 0) \/ (~descending /\ order < 0) THEN i - 1
         ELSE RunLength(s, i + 1, descending)

Reverse(s) == [i \in 1..Len(s) |-> s[Len(s) + 1 - i]]

RECURSIVE InsertionPoint(_, _, _, _)
InsertionPoint(s, pivot, left, right) ==
    IF left >= right THEN left
    ELSE LET mid == left + ((right - left) \div 2) IN
         IF compare(pivot, s[mid + 1]) < 0
         THEN InsertionPoint(s, pivot, left, mid)
         ELSE InsertionPoint(s, pivot, mid + 1, right)

RECURSIVE BinaryInsertionSort(_, _)
BinaryInsertionSort(s, start) ==
    IF start >= Len(s) THEN s
    ELSE LET pivot == s[start + 1]
             left == InsertionPoint(s, pivot, 0, start)
         IN BinaryInsertionSort(
                SubSeq(s, 1, left) \o <<pivot>> \o SubSeq(s, left + 1, start)
                    \o SubSeq(s, start + 2, Len(s)),
                start + 1)

TimSort(s) ==
    IF Len(s) < 2 THEN s
    ELSE LET descending == compare(s[2], s[1]) < 0
             run == RunLength(s, 3, descending)
             made == IF descending
                     THEN Reverse(SubSeq(s, 1, run)) \o SubSeq(s, run + 1, Len(s))
                     ELSE s
         IN BinaryInsertionSort(made, run)

\* allTweets.sort(comparator): the order is the engine's when the
\* comparator is not a consistent ordering.
Engines == {"JavaScriptCore", "V8"}

SortLosesLast(engine, s) ==
    LET sorted == IF engine = "JavaScriptCore" THEN MergeSort(s) ELSE TimSort(s)
    IN IF Len(sorted) > 2 THEN SubSeq(sorted, 1, Len(sorted) - 1) ELSE sorted

Sort(engine, s) == IF engine = "JavaScriptCore" THEN MergeSort(s) ELSE TimSort(s)

SortResults(s) == { Sort(engine, s) : engine \in Engines }

(***************************************************************************)
(* Thread builder (thread.ts)                                              *)
(***************************************************************************)

SEVEN_DAYS_MS == 7 * 24 * 60 * 60 * 1000
MAX_THREAD_TWEETS == 200
AGE_WARNING == "Warning: Tweet is older than 7 days. Search API only returns recent replies."

\* Bounds of the model: the search pages one thread is followed through, and
\* the items of one page.
MaxPages == 3
MaxPageLen == 2

\* Date.now() when the age of the root tweet is checked.
Now == 2 * SEVEN_DAYS_MS

\* created_at of the tweets of the model, as milliseconds.
Minute == 60 * 1000
RecentEarly == Now - 30 * Minute
RecentLate == Now - 20 * Minute
SevenDaysAgo == Now - SEVEN_DAYS_MS

\* The tweet ids of the model: the id asked for, the id the root response
\* may carry instead, and the replies.
TweetIds == {"t0", "t1", "t2"}

\* The pagination cursors of the model: page k carries cursor k or none.
Tokens == <<"c1", "c2", "c3", "c4", "c5", "c6">>

\* includes of response k: absent, or the user u1 stamped k.
IncludesOf(k) ==
    { IF present THEN Some([users |-> Some(<<User("u1", k)>>), tweets |-> Absent]) ELSE Absent :
        present \in world.includes }

\* The root response: response k of the thread stamps its tweets' text and
\* its included users' names with k (0: the root fetch).
RootResponses ==
    { [data |-> Tweet(id, 0, "u1", conv, at, Absent),
       includes |-> inc] :
        id \in world.rootIds, conv \in world.rootConversations, at \in world.rootTimes,
        inc \in IncludesOf(0) }

PageTweets(k) ==
    { Tweet(id, k, "u1", "conv", at, Absent) : id \in world.pageIds, at \in world.pageTimes }

RECURSIVE SeqsUpTo(_, _)
SeqsUpTo(S, n) ==
    IF n = 0 THEN {<<>>}
    ELSE LET shorter == SeqsUpTo(S, n - 1)
         IN shorter \cup { Append(q, x) : q \in { r \in shorter : Len(r) = n - 1 }, x \in S }

\* What the search endpoint may answer to request k of the thread.
Pages(k) ==
    { [data |-> d, includes |-> inc, meta |-> m] :
        d \in {Absent} \cup { Some(q) : q \in SeqsUpTo(PageTweets(k), MaxPageLen) },
        inc \in IncludesOf(k),
        m \in {Absent} \cup { Some([result_count |-> 0, next_token |-> t]) :
                                t \in {Null, Tokens[k]} } }

\* The failures a RequestFn may reject with.
RequestFailures ==
    { parseTwitterError(404, CHOOSE b \in ErrorBodies : b.raw = "{detail}"),
      parseTwitterError(503, CHOOSE b \in ErrorBodies : b.raw = "<html>"),
      TimeoutError }

RootRequest(tweetId) ==
    [endpoint |-> "/tweets/:id", id |-> tweetId, query |-> Null,
     max_results |-> 0, next_token |-> Null]

SearchRequestNoFloor(conversationId, cap, fetched, nextToken) ==
    LET pageSize == Min(100, cap - fetched) IN
    [endpoint |-> "/tweets/search/recent", id |-> Null, query |-> conversationId,
     max_results |-> pageSize,
     next_token |-> IF nextToken # Null /\ nextToken # "" THEN nextToken ELSE Null]

SearchRequestFloorOfEleven(conversationId, cap, fetched, nextToken) ==
    LET pageSize == Min(100, cap - fetched) IN
    [endpoint |-> "/tweets/search/recent", id |-> Null, query |-> conversationId,
     max_results |-> Max(pageSize, 10 + 1),
     next_token |-> IF nextToken # Null /\ nextToken # "" THEN nextToken ELSE Null]

\* The parameters of one search request: query, max_results (API minimum
\* 10) and, when there is a cursor, next_token.
SearchRequest(conversationId, cap, fetched, nextToken) ==
    LET pageSize == Min(100, cap - fetched) IN
    [endpoint |-> "/tweets/search/recent", id |-> Null, query |-> conversationId,
     max_results |-> Max(pageSize, 10),
     next_token |-> IF nextToken # Null /\ nextToken # "" THEN nextToken ELSE Null]

\* for (const tweet of enriched) if (!seenIds.has(tweet.id)) { add; push; fetched++ }
RECURSIVE Accumulate(_, _)
Accumulate(t, enriched) ==
    IF Len(enriched) = 0 THEN t
    ELSE LET tweet == enriched[1] IN
         Accumulate(
            IF tweet.id \notin t.seenIds
            THEN [t EXCEPT !.seenIds = @ \cup {tweet.id},
                           !.allTweets = Append(@, tweet),
                           !.fetched = @ + 1]
            ELSE t,
            Tail(enriched))

\* What the model keeps of the page the loop handled last: its number, the
\* length of its data, the items it added and its cursor.
NoPage == [index |-> 0, items |-> 0, added |-> 0, cursor |-> Null]

NotStarted ==
    [pc |-> "start", cap |-> 0, conversationId |-> Null, ageWarning |-> Null,
     allTweets |-> <<>>, seenIds |-> {}, nextToken |-> Null, fetched |-> 0,
     page |-> NoPage, pushed |-> <<>>, tweets |-> <<>>, error |-> NoError]

\* One execution of buildThread: its locals and the requests it issued.
Run(t, s) == [thread |-> t, sent |-> s]

\* The requests issued are kept as a history, or (world.history = FALSE)
\* only the request awaited is kept.
Issue(s, request) == IF world.history THEN Append(s, request) ELSE <<request>>

\* The number of the search request awaited.
PageIndex(s) == IF world.history THEN Len(s) - 1 ELSE 1

CalledCapOneMore(r, a) ==
    Run([r.thread EXCEPT !.pc = "root", !.cap = Min(a.maxResults, MAX_THREAD_TWEETS) + 1],
        Issue(r.sent, RootRequest(a.tweetId)))

\* buildThread is called: the root tweet is requested.
Called(r, a) ==
    Run([r.thread EXCEPT !.pc = "root", !.cap = Min(a.maxResults, MAX_THREAD_TWEETS)],
        Issue(r.sent, RootRequest(a.tweetId)))

ContinueIgnoresCap(r, leave, engine) ==
    LET t == r.thread IN
    IF ~leave
    THEN Run([t EXCEPT !.pc = "search"],
             Issue(r.sent, SearchRequest(t.conversationId, t.cap, t.fetched, t.nextToken)))
    ELSE LET sorted == Sort(engine, t.allTweets)
         IN Run([t EXCEPT !.pc = "done", !.pushed = t.allTweets, !.allTweets = sorted,
                          !.tweets = sorted],
                r.sent)

ContinueOnlyOnCap(r, leave, engine) ==
    LET t == r.thread IN
    IF t.fetched < t.cap
    THEN Run([t EXCEPT !.pc = "search"],
             Issue(r.sent, SearchRequest(t.conversationId, t.cap, t.fetched, t.nextToken)))
    ELSE LET sorted == Sort(engine, t.allTweets)
         IN Run([t EXCEPT !.pc = "done", !.pushed = t.allTweets, !.allTweets = sorted,
                          !.tweets = sorted],
                r.sent)

ContinueRequestsAfterSort(r, leave, engine) ==
    LET t == r.thread IN
    IF ~leave /\ t.fetched < t.cap
    THEN Run([t EXCEPT !.pc = "search"],
             Issue(r.sent, SearchRequest(t.conversationId, t.cap, t.fetched, t.nextToken)))
    ELSE LET sorted == Sort(engine, t.allTweets)
         IN Run([t EXCEPT !.pc = "done", !.pushed = t.allTweets, !.allTweets = sorted,
                          !.tweets = sorted],
                Issue(r.sent, SearchRequest(t.conversationId, t.cap, t.fetched, t.nextToken)))

ContinueUpToCap(r, leave, engine) ==
    LET t == r.thread IN
    IF ~leave /\ t.fetched <= t.cap
    THEN Run([t EXCEPT !.pc = "search"],
             Issue(r.sent, SearchRequest(t.conversationId, t.cap, t.fetched, t.nextToken)))
    ELSE LET sorted == Sort(engine, t.allTweets)
         IN Run([t EXCEPT !.pc = "done", !.pushed = t.allTweets, !.allTweets = sorted,
                          !.tweets = sorted],
                r.sent)

\* From the loop test on: either the next search request is issued, or the
\* loop is left, allTweets is sorted and the result returned (pushed keeps
\* the order allTweets had before the sort).
Continue(r, leave, engine) ==
    LET t == r.thread IN
    IF ~leave /\ t.fetched < t.cap
    THEN Run([t EXCEPT !.pc = "search"],
             Issue(r.sent, SearchRequest(t.conversationId, t.cap, t.fetched, t.nextToken)))
    ELSE LET sorted == Sort(engine, t.allTweets)
         IN Run([t EXCEPT !.pc = "done", !.pushed = t.allTweets, !.allTweets = sorted,
                          !.tweets = sorted],
                r.sent)

AfterRootWarnsAtSevenDays(r, a, rootResponse, engine) ==
    LET rootTweet == mergeSingleTweet(rootResponse)
        data == rootResponse.data
        conversationId ==
            IF data.conversation_id # Null THEN data.conversation_id ELSE data.id
        tweetAge == IF IsSome(data.created_at) THEN a.now - data.created_at[1] ELSE 0
        ageWarning ==
            IF IsSome(data.created_at) /\ tweetAge >= SEVEN_DAYS_MS
            THEN AGE_WARNING ELSE Null
    IN Continue(Run([r.thread EXCEPT !.conversationId = conversationId,
                                     !.ageWarning = ageWarning,
                                     !.allTweets = <<rootTweet>>,
                                     !.seenIds = {a.tweetId},
                                     !.nextToken = Null,
                                     !.fetched = 0],
                    r.sent),
                FALSE, engine)

AfterRootStopsWhenStale(r, a, rootResponse, engine) ==
    LET rootTweet == mergeSingleTweet(rootResponse)
        data == rootResponse.data
        conversationId ==
            IF data.conversation_id # Null THEN data.conversation_id ELSE data.id
        tweetAge == IF IsSome(data.created_at) THEN a.now - data.created_at[1] ELSE 0
        ageWarning ==
            IF IsSome(data.created_at) /\ tweetAge > SEVEN_DAYS_MS
            THEN AGE_WARNING ELSE Null
    IN Continue(Run([r.thread EXCEPT !.conversationId = conversationId,
                                     !.ageWarning = ageWarning,
                                     !.allTweets = <<rootTweet>>,
                                     !.seenIds = {a.tweetId},
                                     !.nextToken = Null,
                                     !.fetched = 0],
                    r.sent),
                ageWarning # Null, engine)

\* The root request succeeded with rootResponse.
AfterRoot(r, a, rootResponse, engine) ==
    LET rootTweet == mergeSingleTweet(rootResponse)
        data == rootResponse.data
        conversationId ==
            IF data.conversation_id # Null THEN data.conversation_id ELSE data.id
        tweetAge == IF IsSome(data.created_at) THEN a.now - data.created_at[1] ELSE 0
        ageWarning ==
            IF IsSome(data.created_at) /\ tweetAge > SEVEN_DAYS_MS
            THEN AGE_WARNING ELSE Null
    IN Continue(Run([r.thread EXCEPT !.conversationId = conversationId,
                                     !.ageWarning = ageWarning,
                                     !.allTweets = <<rootTweet>>,
                                     !.seenIds = {a.tweetId},
                                     !.nextToken = Null,
                                     !.fetched = 0],
                    r.sent),
                FALSE, engine)

AfterPageIgnoresEmptyData(r, page, engine) ==
    LET added == IF IsSome(page.data) THEN Accumulate(r.thread, mergeTweetList(page))
                                      ELSE r.thread
        nextToken == IF IsSome(page.meta) THEN page.meta[1].next_token ELSE Null
        noToken == nextToken = Null \/ nextToken = ""
        seen == [index |-> PageIndex(r.sent),
                 items |-> IF IsSome(page.data) THEN Len(page.data[1]) ELSE 0,
                 added |-> added.fetched - r.thread.fetched,
                 cursor |-> nextToken]
    IN Continue(Run([added EXCEPT !.nextToken = nextToken, !.page = seen], r.sent),
                noToken, engine)

AfterPageKeepsFirstCursor(r, page, engine) ==
    LET added == IF IsSome(page.data) THEN Accumulate(r.thread, mergeTweetList(page))
                                      ELSE r.thread
        nextToken == IF IsSome(page.meta) THEN page.meta[1].next_token ELSE Null
        noToken == nextToken = Null \/ nextToken = ""
        noItems == ~IsSome(page.data) \/ Len(page.data[1]) = 0
        seen == [index |-> PageIndex(r.sent),
                 items |-> IF IsSome(page.data) THEN Len(page.data[1]) ELSE 0,
                 added |-> added.fetched - r.thread.fetched,
                 cursor |-> nextToken]
    IN Continue(Run([added EXCEPT !.nextToken = IF @ = Null THEN nextToken ELSE @,
                                  !.page = seen], r.sent),
                noToken \/ noItems, engine)

\* A search request succeeded with page.
AfterPage(r, page, engine) ==
    LET added == IF IsSome(page.data) THEN Accumulate(r.thread, mergeTweetList(page))
                                      ELSE r.thread
        nextToken == IF IsSome(page.meta) THEN page.meta[1].next_token ELSE Null
        noToken == nextToken = Null \/ nextToken = ""
        noItems == ~IsSome(page.data) \/ Len(page.data[1]) = 0
        seen == [index |-> PageIndex(r.sent),
                 items |-> IF IsSome(page.data) THEN Len(page.data[1]) ELSE 0,
                 added |-> added.fetched - r.thread.fetched,
                 cursor |-> nextToken]
    IN Continue(Run([added EXCEPT !.nextToken = nextToken, !.page = seen], r.sent),
                noToken \/ noItems, engine)

AfterFailureReturnsPartial(r, error) ==
    Run([r.thread EXCEPT !.pc = "done", !.tweets = r.thread.allTweets], r.sent)

\* A request failed: buildThread rejects with the failure.
AfterFailure(r, error) ==
    Run([NotStarted EXCEPT !.pc = "failed", !.error = error], r.sent)

CallBuildThread ==
    /\ thread.pc = "start"
    /\ LET r == Called(Run(thread, sent), args)
       IN thread' = r.thread /\ sent' = r.sent
    /\ UNCHANGED <<req, calls, warnings, req2, warnings2, cin, cout, otherVars, args, world,
                   thread2, sent2, op>>

\* The root request succeeds.
RootResolves ==
    /\ thread.pc = "root"
    /\ \E rootResponse \in RootResponses, engine \in Engines :
        LET r == AfterRoot(Run(thread, sent), args, rootResponse, engine)
        IN thread' = r.thread /\ sent' = r.sent
    /\ UNCHANGED <<req, calls, warnings, req2, warnings2, cin, cout, otherVars, args, world,
                   thread2, sent2, op>>

\* A search request succeeds with a page.
PageResolves ==
    /\ thread.pc = "search"
    /\ PageIndex(sent) <= MaxPages
    /\ \E page \in Pages(PageIndex(sent)), engine \in Engines :
        LET r == AfterPage(Run(thread, sent), page, engine)
        IN thread' = r.thread /\ sent' = r.sent
    /\ UNCHANGED <<req, calls, warnings, req2, warnings2, cin, cout, otherVars, args, world,
                   thread2, sent2, op>>

\* A request of the thread fails: buildThread rejects with the failure.
RequestFails ==
    /\ thread.pc \in {"root", "search"}
    /\ \E error \in RequestFailures :
        LET r == AfterFailure(Run(thread, sent), error)
        IN thread' = r.thread /\ sent' = r.sent
    /\ UNCHANGED <<req, calls, warnings, req2, warnings2, cin, cout, otherVars, args, world,
                   thread2, sent2, op>>

NextThread == CallBuildThread \/ RootResolves \/ PageResolves \/ RequestFails

\* The world of the specifications that are not about threads.
NoWorld ==
    [rootIds |-> {"t0"}, rootConversations |-> {Null}, rootTimes |-> {Absent},
     pageIds |-> TweetIds, pageTimes |-> {Absent}, includes |-> {TRUE}, history |-> TRUE]

InitThreadIdle ==
    /\ args = [tweetId |-> "t0", maxResults |-> 0, now |-> Now]
    /\ world = NoWorld
    /\ thread = NotStarted
    /\ sent = <<>>
    /\ thread2 = NotStarted
    /\ sent2 = <<>>

(***************************************************************************)
(* Public operations of the client (createXApiClient), but getThread,      *)
(* which is buildThread                                                    *)
(***************************************************************************)

OperationNames == {"getTweet", "getTimeline", "searchRecent", "getUser", "getReplies"}

\* The page size the list operations may ask for: Math.min(maxResults, 100).
MAX_PAGE == 100

Request(endpoint, id, query, inReplyTo, maxResults) ==
    [endpoint |-> endpoint, id |-> id, query |-> query, in_reply_to |-> inReplyTo,
     max_results |-> maxResults]

TweetRequest(id) == Request("/tweets/:id", id, Null, Null, 0)
UserRequest(username) == Request("/users/by/username/:username", username, Null, Null, 0)
TimelineRequest(userId, maxResults) ==
    Request("/users/:id/tweets", userId, Null, Null, Min(maxResults, MAX_PAGE))
RecentRequest(query, inReplyTo, maxResults) ==
    Request("/tweets/search/recent", Null, query, inReplyTo, Min(maxResults, MAX_PAGE))

\* What the server may answer to a user lookup and to a list request.
UserResponses == { [data |-> User(id, "name")] : id \in {"u1", "u2"} }

ListResponses ==
    { [data |-> d, includes |-> inc, meta |-> m] :
        d \in {Absent, Some(<<>>), Some(<<Tweet("t2", 1, "u1", "conv", Absent, Absent)>>)},
        inc \in IncludesOf(1),
        m \in {Absent, Some([result_count |-> 5, next_token |-> Null])} }

ResponsesTo(request) ==
    IF request.endpoint = "/tweets/:id" THEN RootResponses
    ELSE IF request.endpoint = "/users/by/username/:username" THEN UserResponses
    ELSE ListResponses

NoResult ==
    [user |-> Absent, tweet |-> Absent, tweets |-> <<>>, query |-> Null, resultCount |-> 0]

NoOperation ==
    [name |-> Null, arg |-> Null, maxResults |-> 0, pc |-> "idle", sent |-> <<>>,
     received |-> <<>>, first |-> Absent, result |-> NoResult, error |-> NoError]

ResultCountFromItems(response) ==
    IF IsSome(response.data) THEN Len(response.data[1]) ELSE 0

\* response.meta?.result_count ?? 0
ResultCount(response) ==
    IF IsSome(response.meta) THEN response.meta[1].result_count ELSE 0

\* The first request of an operation.
FirstRequest(name, arg, maxResults) ==
    IF name \in {"getTweet", "getReplies"} THEN TweetRequest(arg)
    ELSE IF name \in {"getTimeline", "getUser"} THEN UserRequest(arg)
    ELSE RecentRequest(arg, Null, maxResults)

AfterFirstUsesArgument(o, response) ==
    IF o.name = "getTimeline"
    THEN [o EXCEPT !.received = Append(@, response),
                   !.pc = "second", !.first = Some(response),
                   !.sent = Append(@, TimelineRequest(o.arg, o.maxResults))]
    ELSE IF o.name = "getReplies"
    THEN [o EXCEPT !.received = Append(@, response),
                   !.pc = "second", !.first = Some(response),
                   !.sent = Append(@, RecentRequest(o.arg, o.arg, o.maxResults))]
    ELSE IF o.name = "getTweet"
    THEN [o EXCEPT !.received = Append(@, response),
                   !.pc = "done",
                   !.result = [NoResult EXCEPT !.tweet = Some(mergeSingleTweet(response))]]
    ELSE IF o.name = "getUser"
    THEN [o EXCEPT !.received = Append(@, response),
                   !.pc = "done", !.result = [NoResult EXCEPT !.user = Some(response.data)]]
    ELSE [o EXCEPT !.received = Append(@, response),
                   !.pc = "done",
                   !.result = [NoResult EXCEPT !.query = o.arg,
                                               !.tweets = mergeTweetList(response),
                                               !.resultCount = ResultCount(response)]]

\* The operation awaits its first request and gets response: getTimeline
\* and getReplies build their second request from it, the others return.
AfterFirst(o, response) ==
    IF o.name = "getTimeline"
    THEN [o EXCEPT !.received = Append(@, response),
                   !.pc = "second", !.first = Some(response),
                   !.sent = Append(@, TimelineRequest(response.data.id, o.maxResults))]
    ELSE IF o.name = "getReplies"
    THEN LET conversationId ==
                IF response.data.conversation_id # Null
                THEN response.data.conversation_id ELSE response.data.id
         IN [o EXCEPT !.received = Append(@, response),
                      !.pc = "second", !.first = Some(response),
                      !.sent = Append(@, RecentRequest(conversationId, o.arg, o.maxResults))]
    ELSE IF o.name = "getTweet"
    THEN [o EXCEPT !.received = Append(@, response),
                   !.pc = "done",
                   !.result = [NoResult EXCEPT !.tweet = Some(mergeSingleTweet(response))]]
    ELSE IF o.name = "getUser"
    THEN [o EXCEPT !.received = Append(@, response),
                   !.pc = "done", !.result = [NoResult EXCEPT !.user = Some(response.data)]]
    ELSE [o EXCEPT !.received = Append(@, response),
                   !.pc = "done",
                   !.result = [NoResult EXCEPT !.query = o.arg,
                                               !.tweets = mergeTweetList(response),
                                               !.resultCount = ResultCount(response)]]

\* The operation awaits its second request and gets response.
AfterSecond(o, response) ==
    IF o.name = "getTimeline"
    THEN [o EXCEPT !.received = Append(@, response),
                   !.pc = "done", !.first = Absent,
                   !.result = [NoResult EXCEPT !.user = Some(o.first[1].data),
                                               !.tweets = mergeTweetList(response)]]
    ELSE [o EXCEPT !.received = Append(@, response),
                   !.pc = "done", !.first = Absent,
                   !.result = [NoResult EXCEPT !.tweet = Some(mergeSingleTweet(o.first[1])),
                                               !.tweets = mergeTweetList(response),
                                               !.resultCount = ResultCount(response)]]

\* A request of the operation failed: nothing catches the rejection of the
\* awaited request, the operation rejects with it.
OperationRejects(o, error) ==
    [o EXCEPT !.pc = "failed", !.first = Absent, !.error = error]

CallOperation ==
    /\ op.pc = "idle"
    /\ \E name \in OperationNames, maxResults \in {5, 150} :
        op' = [NoOperation EXCEPT !.name = name, !.arg = "t0", !.maxResults = maxResults,
                                  !.pc = "first",
                                  !.sent = <<FirstRequest(name, "t0", maxResults)>>]
    /\ UNCHANGED <<req, calls, warnings, req2, warnings2, cin, cout, otherVars, args, world,
                   thread, sent, thread2, sent2>>

OperationResolves ==
    /\ op.pc \in {"first", "second"}
    /\ \E response \in ResponsesTo(op.sent[Len(op.sent)]) :
        op' = IF op.pc = "first" THEN AfterFirst(op, response) ELSE AfterSecond(op, response)
    /\ UNCHANGED <<req, calls, warnings, req2, warnings2, cin, cout, otherVars, args, world,
                   thread, sent, thread2, sent2>>

OperationFails ==
    /\ op.pc \in {"first", "second"}
    /\ \E error \in RequestFailures : op' = OperationRejects(op, error)
    /\ UNCHANGED <<req, calls, warnings, req2, warnings2, cin, cout, otherVars, args, world,
                   thread, sent, thread2, sent2>>

NextOperation == CallOperation \/ OperationResolves \/ OperationFails

(***************************************************************************)
(* Request executor                                                        *)
(***************************************************************************)

\* What one transport call can do: resolve with a response, not resolve
\* within timeoutMs, or reject.
NoHeaders == [remaining |-> Null, reset |-> Null]
NoBody == [raw |-> "", json |-> FALSE, detail |-> Null, errors |-> <<>>]

ErrorResponses ==
    { [kind |-> "response", status |-> s, body |-> b, headers |-> h, generic |-> "unknown"] :
        s \in { x \in WireStatuses : ~Ok(x) }, b \in WireErrorBodies, h \in Headers }

OkResponses ==
    { o \in [kind : {"response"}, status : { x \in WireStatuses : Ok(x) }, body : OkBodies,
             headers : Headers, generic : GenericCategories] :
        o.body.json => o.generic = "unknown" }

Timeouts ==
    { [kind |-> "timeout", status |-> 0, body |-> NoBody, headers |-> NoHeaders,
       generic |-> "unknown"] }

Rejections ==
    { [kind |-> "reject", status |-> 0, body |-> NoBody, headers |-> NoHeaders, generic |-> g] :
        g \in GenericCategories }

Outcomes == ErrorResponses \cup OkResponses \cup Timeouts \cup Rejections

\* The result of one run of the function request() hands to retry().
Return(value) == [state |-> "fulfilled", value |-> value, error |-> NoError]
Throw(error) == [state |-> "rejected", value |-> Null, error |-> error]
Pending == [state |-> "pending", value |-> Null, error |-> NoError]

LowQuotaNoPresenceCheck(headers) == NumberLessThan(headers.remaining, LOW_QUOTA)

\* remaining && Number(remaining) < 3
LowQuota(headers) ==
    Truthy(headers.remaining) /\ NumberLessThan(headers.remaining, LOW_QUOTA)

\* logger.warn`x-api:rateLimit:low ...` happens only once the response is there.
Warns(o) == o.kind = "response" /\ LowQuota(o.headers)

Warning(attempt, o) ==
    [attempt |-> attempt, remaining |-> o.headers.remaining, resetAt |-> o.headers.reset]

AttemptThrowsOnOk(o) ==
    IF o.kind = "timeout" THEN Throw(TimeoutError)
    ELSE IF o.kind = "reject" THEN Throw(GenericError("fetch failed", o.generic))
    ELSE IF Ok(o.status) THEN Throw(parseTwitterError(o.status, o.body))
    ELSE IF o.body.json THEN Return(o.body.raw)
    ELSE Throw(GenericError("SyntaxError", o.generic))

AttemptGivesUpOnLowQuota(o) ==
    IF o.kind = "timeout" THEN Throw(TimeoutError)
    ELSE IF o.kind = "reject" THEN Throw(GenericError("fetch failed", o.generic))
    ELSE IF LowQuota(o.headers) THEN Throw(GenericError("rate limit low", "unknown"))
    ELSE IF ~Ok(o.status) THEN Throw(parseTwitterError(o.status, o.body))
    ELSE IF o.body.json THEN Return(o.body.raw)
    ELSE Throw(GenericError("SyntaxError", o.generic))

AttemptReturnsEmptyOnGarbled(o) ==
    IF o.kind = "timeout" THEN Throw(TimeoutError)
    ELSE IF o.kind = "reject" THEN Throw(GenericError("fetch failed", o.generic))
    ELSE IF ~Ok(o.status) THEN Throw(parseTwitterError(o.status, o.body))
    ELSE IF o.body.json THEN Return(o.body.raw)
    ELSE Return("{}")

\* One run of the attempt function: withTimeout(fetchFn(...)), then the
\* status check and the body parse.
Attempt(o) ==
    IF o.kind = "timeout" THEN Throw(TimeoutError)
    ELSE IF o.kind = "reject" THEN Throw(GenericError("fetch failed", o.generic))
    ELSE IF ~Ok(o.status) THEN Throw(parseTwitterError(o.status, o.body))
    ELSE IF o.body.json THEN Return(o.body.raw)
    ELSE Throw(GenericError("SyntaxError", o.generic))

shouldRetryAnyApiError(error) ==
    IF error.type = "TimeoutError" THEN TRUE
    ELSE IF error.type = "TwitterApiError" THEN TRUE
    ELSE getErrorCategory(error) = "transient"

shouldRetryAnyError(error) == error.type # "none"

shouldRetryNoTimeout(error) ==
    IF error.type = "TwitterApiError" THEN error.category = "transient"
    ELSE getErrorCategory(error) = "transient"

shouldRetry(error) ==
    IF error.type = "TimeoutError" THEN TRUE
    ELSE IF error.type = "TwitterApiError" THEN error.category = "transient"
    ELSE getErrorCategory(error) = "transient"

retryWrapsLastError(r, res) ==
    IF res.state = "fulfilled" THEN [r EXCEPT !.pc = "done", !.result = res]
    ELSE IF r.attempt < maxAttempts /\ shouldRetry(res.error)
         THEN [r EXCEPT !.pc = "backoff"]
         ELSE IF shouldRetry(res.error)
              THEN [r EXCEPT !.pc = "done",
                             !.result = Throw(GenericError("retry exhausted", "unknown"))]
              ELSE [r EXCEPT !.pc = "done", !.result = res]

\* retry(fn, {maxAttempts, shouldRetry}): what the loop does with the result
\* of the attempt it just ran.
retry(r, res) ==
    IF res.state = "fulfilled" THEN [r EXCEPT !.pc = "done", !.result = res]
    ELSE IF r.attempt < maxAttempts /\ shouldRetry(res.error)
         THEN [r EXCEPT !.pc = "backoff"]
         ELSE [r EXCEPT !.pc = "done", !.result = res]

\* The request after its pending transport call ended with outcome o.
AfterCall(r, o) == retry(r, Attempt(o))

\* The configurations a client is constructed with.
Configs == { [bearerToken |-> t] : t \in {"tokenA", "tokenB"} }

\* createXApiClient(config): const { bearerToken, ... } = config, read once
\* and captured by request().
createXApiClient(config) == [bearerToken |-> config.bearerToken]

AuthorizationOfNoToken(bearerToken) == [scheme |-> "Bearer", token |-> Null]

\* headers: { Authorization: `Bearer ${bearerToken}` }
Authorization(bearerToken) == [scheme |-> "Bearer", token |-> bearerToken]

\* A transport call: the header fetchFn was called with and how it ended.
Call(o) == [authorization |-> Authorization(client.bearerToken)] @@ o

Idle == [pc |-> "idle", attempt |-> 0, result |-> Pending]

\* The count of fetchFn calls is a history: it is kept from 0 by the
\* specification that bounds it and is off everywhere else.
NotCounted == 0 - 1

CountCall(n) == IF n = NotCounted THEN NotCounted ELSE n + 1

InitRequest ==
    /\ req = Idle
    /\ calls = <<>>
    /\ warnings = <<>>
    /\ transport = NotCounted

InitPair ==
    /\ req2 = Idle
    /\ warnings2 = <<>>
    /\ calls2 = <<>>

InitOneClient == client = createXApiClient([bearerToken |-> "tokenA"])

InitClassifier ==
    /\ cin = [status |-> 404, body |-> CHOOSE b \in ErrorBodies : b.raw = "{}"]
    /\ cout = NoError

\* A budget of attempts per operation: a later request goes on counting
\* where the requests before it stopped.
StartOnOperationBudget ==
    /\ req.pc = "idle"
    /\ req' = [req EXCEPT !.pc = "fetch", !.attempt = IF transport > 0 THEN transport + 1 ELSE 1]
    /\ UNCHANGED <<calls, warnings, req2, warnings2, cin, cout, otherVars, threadVars>>

\* request(endpoint, params) is called: retry() runs the first attempt.
Start ==
    /\ req.pc = "idle"
    /\ req' = [req EXCEPT !.pc = "fetch", !.attempt = 1]
    /\ UNCHANGED <<calls, warnings, req2, warnings2, cin, cout, otherVars, threadVars>>

\* The transport call of the current attempt ends: with a response, with
\* the timeout, or with a rejection.
Settle(outcomes) ==
    /\ req.pc = "fetch"
    /\ \E o \in outcomes :
        /\ calls' = Append(calls, Call(o))
        /\ warnings' = IF Warns(o) THEN Append(warnings, Warning(req.attempt, o))
                                   ELSE warnings
        /\ req' = AfterCall(req, o)
    /\ transport' = CountCall(transport)
    /\ UNCHANGED <<req2, warnings2, calls2, client, merge, cin, cout, threadVars>>

FetchResolves == Settle(ErrorResponses \cup OkResponses)

FetchTimesOut == Settle(Timeouts)

FetchRejects == Settle(Rejections)

\* The delay of retry() is over: the next attempt calls the transport.
Backoff ==
    /\ req.pc = "backoff"
    /\ req' = [req EXCEPT !.pc = "fetch", !.attempt = @ + 1]
    /\ UNCHANGED <<calls, warnings, req2, warnings2, cin, cout, otherVars, threadVars>>

Next == Start \/ FetchRejects \/ FetchTimesOut \/ FetchResolves \/ Backoff

Init ==
    /\ InitRequest /\ InitPair /\ InitClassifier /\ InitOneClient /\ InitMergeIdle
    /\ InitThreadIdle /\ op = NoOperation

Spec == Init /\ [][Next]_vars

\* Threads of a few replies, whose root tweet may lack a timestamp, be
\* recent, exactly seven days old or a millisecond older, and whose root
\* response may carry another id than the one asked for.
InitThread ==
    /\ InitRequest /\ InitPair /\ InitClassifier /\ InitOneClient /\ InitMergeIdle
    /\ args \in [tweetId : {"t0"}, maxResults : {1, 2, 50}, now : {Now}]
    /\ world = [rootIds |-> {"t0", "t1"}, rootConversations |-> {Null},
                rootTimes |-> {Absent, Some(RecentLate), Some(SevenDaysAgo),
                               Some(SevenDaysAgo - 1)},
                pageIds |-> TweetIds,
                pageTimes |-> {Absent}, includes |-> {TRUE},
                history |-> TRUE]
    /\ thread = NotStarted
    /\ sent = <<>>
    /\ thread2 = NotStarted
    /\ sent2 = <<>>
    /\ op = NoOperation

SpecThread == InitThread /\ [][NextThread]_vars

\* Threads of up to four replies to a recent root tweet, with and without
\* timestamps.
ReplyIds == {"t1", "t2", "t3", "t4"}

InitSort ==
    /\ InitRequest /\ InitPair /\ InitClassifier /\ InitOneClient /\ InitMergeIdle
    /\ args = [tweetId |-> "t0", maxResults |-> 50, now |-> Now]
    /\ world = [rootIds |-> {"t0"}, rootConversations |-> {Null},
                rootTimes |-> {Some(RecentLate)},
                pageIds |-> ReplyIds,
                pageTimes |-> {Absent, Some(RecentEarly)}, includes |-> {TRUE},
                history |-> TRUE]
    /\ thread = NotStarted
    /\ sent = <<>>
    /\ thread2 = NotStarted
    /\ sent2 = <<>>
    /\ op = NoOperation

SpecSort == InitSort /\ [][NextThread]_vars

\* Threads of up to three replies with a timestamp earlier than the
\* root's, if the root has one: the sort has something to move.
InitRearrange ==
    /\ InitRequest /\ InitPair /\ InitClassifier /\ InitOneClient /\ InitMergeIdle
    /\ args = [tweetId |-> "t0", maxResults |-> 50, now |-> Now]
    /\ world = [rootIds |-> {"t0"}, rootConversations |-> {Null},
                rootTimes |-> {Absent, Some(RecentLate)},
                pageIds |-> {"t1", "t2", "t3"},
                pageTimes |-> {Some(RecentEarly)}, includes |-> {FALSE},
                history |-> TRUE]
    /\ thread = NotStarted
    /\ sent = <<>>
    /\ thread2 = NotStarted
    /\ sent2 = <<>>
    /\ op = NoOperation

SpecRearrange == InitRearrange /\ [][NextThread]_vars

\* Threads whose cap is around the floor of 10, around the page limit of 100
\* and around MAX_THREAD_TWEETS.
PageSizeResults == {1, 9, 10, 11, 99, 100, 101, 199, 200, 201, 250}

InitPageSize ==
    /\ InitRequest /\ InitPair /\ InitClassifier /\ InitOneClient /\ InitMergeIdle
    /\ args \in [tweetId : {"t0"}, maxResults : PageSizeResults, now : {Now}]
    /\ world = [rootIds |-> {"t0"}, rootConversations |-> {Null},
                rootTimes |-> {Absent},
                pageIds |-> {"t1", "t2"},
                pageTimes |-> {Absent}, includes |-> {TRUE},
                history |-> TRUE]
    /\ thread = NotStarted
    /\ sent = <<>>
    /\ thread2 = NotStarted
    /\ sent2 = <<>>
    /\ op = NoOperation

SpecPageSize == InitPageSize /\ [][NextThread]_vars

\* Pages as long as the request allows: the search endpoint answers a
\* request for max_results items with that many items, one less, one or
\* none; the items are replies not seen before, after the seed once more
\* or not.
NewReplies(k, from, n) ==
    [i \in 1..n |-> Tweet("r" \o ToString(from + i), k, "u1", "conv", Absent, Absent)]

FullPages(k, asked, fetched) ==
    { [data |-> Some(IF seedAgain /\ n >= 1
                     THEN <<Tweet("t0", k, "u1", "conv", Absent, Absent)>>
                              \o NewReplies(k, fetched, n - 1)
                     ELSE NewReplies(k, fetched, n)),
       includes |-> Absent,
       meta |-> Some([result_count |-> n, next_token |-> t])] :
        n \in {0, 1, asked - 1, asked}, seedAgain \in BOOLEAN, t \in {Null, Tokens[k]} }

FullPageResolves ==
    /\ thread.pc = "search"
    /\ PageIndex(sent) <= MaxPages
    /\ \E page \in FullPages(PageIndex(sent), sent[Len(sent)].max_results, thread.fetched),
          engine \in Engines :
        LET r == AfterPage(Run(thread, sent), page, engine)
        IN thread' = r.thread /\ sent' = r.sent
    /\ UNCHANGED <<req, calls, warnings, req2, warnings2, cin, cout, otherVars, args, world,
                   thread2, sent2, op>>

NextOvershoot == CallBuildThread \/ RootResolves \/ FullPageResolves \/ RequestFails

\* Caps below, at and above the floor of 10, and caller limits of zero and
\* below.
OvershootResults == {0 - 10, 0, 1, 9, 10, 11, 12, 21}

InitOvershoot ==
    /\ InitRequest /\ InitPair /\ InitClassifier /\ InitOneClient /\ InitMergeIdle
    /\ args \in [tweetId : {"t0"}, maxResults : OvershootResults, now : {Now}]
    /\ world = [rootIds |-> {"t0"}, rootConversations |-> {Null},
                rootTimes |-> {Absent, Some(SevenDaysAgo - 1)},
                pageIds |-> {}, pageTimes |-> {Absent}, includes |-> {FALSE},
                history |-> TRUE]
    /\ thread = NotStarted
    /\ sent = <<>>
    /\ thread2 = NotStarted
    /\ sent2 = <<>>
    /\ op = NoOperation

SpecOvershoot == InitOvershoot /\ [][NextOvershoot]_vars

(***************************************************************************)
(* The includes merge on responses whose includes are absent, empty or     *)
(* populated, with entries that share an id, and the page step of          *)
(* buildThread on the list responses                                       *)
(***************************************************************************)

Reference(id) == [type |-> "replied_to", id |-> id]

\* The included users and tweets: two users and two tweets share an id and
\* differ in content.
MergeUsers == {User("u1", "a"), User("u1", "b"), User("u2", "a")}
MergeTweets == { Tweet("r1", text, "u2", "conv", Absent, Absent) : text \in {1, 2} }

MergeIncludes ==
    {Absent} \cup
    { Some([users |-> users, tweets |-> tweets]) :
        users \in {Absent} \cup { Some(q) : q \in SeqsUpTo(MergeUsers, 2) },
        tweets \in {Absent} \cup { Some(q) : q \in SeqsUpTo(MergeTweets, 2) } }

\* The primary items: with no author_id, with one that resolves or not; with
\* no references, none in the array, one that resolves, or an unresolvable
\* one before one that resolves.
MergeItems(ids) ==
    { Tweet(id, 0, author_id, "conv", Absent, refs) :
        id \in ids,
        author_id \in {Null, "u1", "u9"},
        refs \in {Absent, Some(<<>>), Some(<<Reference("r1")>>),
                  Some(<<Reference("r9"), Reference("r1")>>)} }

ListItems ==
    { item \in MergeItems({"t1", "t2"}) :
        \/ item.id = "t1" /\ item.author_id = "u1" /\ item.referenced_tweets = Absent
        \/ item.id = "t1" /\ item.author_id = Null /\ item.referenced_tweets # Absent
        \/ /\ item.id = "t2" /\ item.author_id = "u9"
           /\ item.referenced_tweets = Some(<<Reference("r9"), Reference("r1")>>) }

SingleResponses ==
    { [data |-> item, includes |-> inc, meta |-> Absent] :
        item \in MergeItems({"t0"}), inc \in MergeIncludes }

ListMergeResponses ==
    { [data |-> d, includes |-> inc, meta |-> m] :
        d \in {Absent} \cup { Some(q) : q \in SeqsUpTo(ListItems, 2) },
        inc \in MergeIncludes,
        m \in {Absent, Some([result_count |-> 0, next_token |-> "c1"])} }

\* The orderings of an array.
Orderings(q) == { [i \in 1..Len(q) |-> q[f[i]]] : f \in Permutations(1..Len(q)) }

OrderingsOfOptional(o) == IF IsSome(o) THEN { Some(q) : q \in Orderings(o[1]) } ELSE {Absent}

\* The responses that differ from response in the order of includes.users
\* and of includes.tweets only.
Reordered(response) ==
    IF ~IsSome(response.includes) THEN {response}
    ELSE { [response EXCEPT !.includes = Some([users |-> users, tweets |-> tweets])] :
            users \in OrderingsOfOptional(response.includes[1].users),
            tweets \in OrderingsOfOptional(response.includes[1].tweets) }

\* The merge function is applied to the response, to the response as that
\* call left it, and to the response with its includes in another order.
Denormalize ==
    /\ merge.pc = "in"
    /\ \E reordered \in Reordered(merge.response[1]) :
        LET first == MergeCall(merge.fn, merge.response[1])
            second == MergeCall(merge.fn, first.response)
            other == MergeCall(merge.fn, reordered)
        IN merge' = [merge EXCEPT !.pc = "out", !.after = Some(first.response),
                                  !.out = first.returned, !.again = second.returned,
                                  !.reordered = Some(reordered),
                                  !.outReordered = other.returned]
    /\ UNCHANGED <<req, calls, warnings, req2, warnings2, calls2, client, transport, cin, cout,
                   threadVars>>

\* The first search request of a thread is answered with the list response.
MergedPageResolves ==
    /\ merge.pc = "out" /\ merge.fn = "mergeTweetList"
    /\ thread.pc = "search" /\ Len(sent) = 2
    /\ \E engine \in Engines :
        LET r == AfterPage(Run(thread, sent), merge.response[1], engine)
        IN thread' = r.thread /\ sent' = r.sent
    /\ UNCHANGED <<req, calls, warnings, req2, warnings2, cin, cout, otherVars, args, world,
                   thread2, sent2, op>>

NextMerge == Denormalize \/ MergedPageResolves

\* The thread awaits its first search request: buildThread was called and
\* its root request answered, with the author u1 as the root response
\* includes it.
AwaitsFirstPage(a) ==
    AfterRoot(Called(Run(NotStarted, <<>>), a), a,
              [data |-> Tweet(a.tweetId, 0, "u1", Null, Absent, Absent),
               includes |-> Some([users |-> Some(<<User("u1", "root")>>), tweets |-> Absent])],
              "V8")

InitMerge ==
    /\ InitRequest /\ InitPair /\ InitClassifier /\ InitOneClient
    /\ \E fn \in MergeFunctions :
        \E response \in IF fn = "mergeSingleTweet" THEN SingleResponses
                                                  ELSE ListMergeResponses :
            merge = [NoMerge EXCEPT !.pc = "in", !.fn = fn, !.response = Some(response)]
    /\ args = [tweetId |-> "t0", maxResults |-> 50, now |-> Now]
    /\ world = NoWorld
    /\ thread = AwaitsFirstPage(args).thread
    /\ sent = AwaitsFirstPage(args).sent
    /\ thread2 = NotStarted
    /\ sent2 = <<>>
    /\ op = NoOperation

SpecMerge == InitMerge /\ [][NextMerge]_vars

(***************************************************************************)
(* The client: a public operation whose requests are executed by           *)
(* request(), one logical request at a time                                *)
(***************************************************************************)

\* The transport outcomes of the client specification: a 2xx response that
\* parses, one that does not (its SyntaxError in either generic category),
\* a permanent and a transient failure, a timeout.
ClientOutcomes ==
    { o \in Outcomes :
        /\ o.headers = NoHeaders
        /\ o.generic = "transient" => o.body.raw = "garbled"
        /\ o.kind \in {"response", "timeout"}
        /\ o.kind = "response" =>
            \/ o.status = 200 /\ o.body.raw \in {"envelope1", "garbled"}
            \/ o.status = 404 /\ o.body.raw = "{detail}"
            \/ o.status = 503 /\ o.body.raw = "<html>" }

\* The operation or the thread awaits a request.
OperationAwaits == op.pc \in {"first", "second"}
ThreadAwaits == thread.pc \in {"root", "search"}

\* getThread(tweetId, maxResults): buildThread(request, ...).
CallGetThread == op.pc = "idle" /\ CallBuildThread

CallOther == thread.pc = "start" /\ CallOperation

\* request(endpoint, params) starts executing the request awaited.
RequestStarts == (OperationAwaits \/ ThreadAwaits) /\ Start

RequestSettles == Settle(ClientOutcomes)

\* request() returned the parsed body to the operation: the next request,
\* if any, is a new logical request.
OperationGetsResponse ==
    /\ OperationAwaits
    /\ req.pc = "done" /\ req.result.state = "fulfilled"
    /\ \E response \in ResponsesTo(op.sent[Len(op.sent)]) :
        op' = IF op.pc = "first" THEN AfterFirst(op, response) ELSE AfterSecond(op, response)
    /\ req' = Idle /\ calls' = <<>> /\ warnings' = <<>>
    /\ UNCHANGED <<req2, warnings2, cin, cout, otherVars, args, world, thread, sent, thread2, sent2>>

\* request() rejected: the operation rejects.
OperationGetsFailure ==
    /\ OperationAwaits
    /\ req.pc = "done" /\ req.result.state = "rejected"
    /\ op' = OperationRejects(op, req.result.error)
    /\ UNCHANGED <<req, calls, warnings, req2, warnings2, cin, cout, otherVars, args, world,
                   thread, sent, thread2, sent2>>

ThreadGetsResponse ==
    /\ ThreadAwaits
    /\ req.pc = "done" /\ req.result.state = "fulfilled"
    /\ PageIndex(sent) <= MaxPages
    /\ \E engine \in Engines :
        \E response \in IF thread.pc = "root" THEN RootResponses ELSE Pages(PageIndex(sent)) :
            LET r == IF thread.pc = "root"
                     THEN AfterRoot(Run(thread, sent), args, response, engine)
                     ELSE AfterPage(Run(thread, sent), response, engine)
            IN thread' = r.thread /\ sent' = r.sent
    /\ req' = Idle /\ calls' = <<>> /\ warnings' = <<>>
    /\ UNCHANGED <<req2, warnings2, cin, cout, otherVars, args, world, thread2, sent2, op>>

ThreadGetsFailure ==
    /\ ThreadAwaits
    /\ req.pc = "done" /\ req.result.state = "rejected"
    /\ LET r == AfterFailure(Run(thread, sent), req.result.error)
       IN thread' = r.thread /\ sent' = r.sent
    /\ UNCHANGED <<req, calls, warnings, req2, warnings2, cin, cout, otherVars, args, world,
                   thread2, sent2, op>>

NextClient ==
    \/ CallGetThread \/ CallOther
    \/ RequestStarts \/ RequestSettles \/ Backoff
    \/ OperationGetsResponse \/ OperationGetsFailure
    \/ ThreadGetsResponse \/ ThreadGetsFailure

InitClient ==
    /\ InitRequest /\ InitPair /\ InitClassifier /\ InitMergeIdle
    /\ client \in { createXApiClient(config) : config \in Configs }
    /\ args \in [tweetId : {"t0"}, maxResults : {1, 2}, now : {Now}]
    /\ world = [rootIds |-> {"t0", "t1"}, rootConversations |-> {Null, "conv"},
                rootTimes |-> {Absent},
                pageIds |-> {"t0", "t1"},
                pageTimes |-> {Absent}, includes |-> {TRUE},
                history |-> TRUE]
    /\ thread = NotStarted
    /\ sent = <<>>
    /\ thread2 = NotStarted
    /\ sent2 = <<>>
    /\ op = NoOperation

SpecClient == InitClient /\ [][NextClient]_vars

\* The client with its transport calls counted: one operation or one
\* thread of two or three pages, every request of it tried up to three
\* times.
InitBudget ==
    /\ req = Idle /\ calls = <<>> /\ warnings = <<>> /\ transport = 0
    /\ InitPair /\ InitClassifier /\ InitMergeIdle /\ InitOneClient
    /\ args \in [tweetId : {"t0"}, maxResults : {2, 3}, now : {Now}]
    /\ world = [rootIds |-> {"t0"}, rootConversations |-> {Null},
                rootTimes |-> {Absent},
                pageIds |-> {"t1", "t2"},
                pageTimes |-> {Absent}, includes |-> {TRUE},
                history |-> TRUE]
    /\ thread = NotStarted
    /\ sent = <<>>
    /\ thread2 = NotStarted
    /\ sent2 = <<>>
    /\ op = NoOperation

SpecBudget == InitBudget /\ [][NextClient]_vars

(***************************************************************************)
(* Two operations on one client at the same time: getThread, whose         *)
(* requests request() executes as req, and another operation, whose        *)
(* requests it executes as req2. Each call of request() and of retry() has *)
(* its own locals; the steps interleave at every await. thread2 is the     *)
(* same getThread running alone against the same responses.                *)
(***************************************************************************)

\* The transport outcomes of the concurrent specification: a 2xx response
\* that parses, a permanent and a transient failure.
ConcurrentOutcomes ==
    { o \in ClientOutcomes : o.kind = "response" /\ o.body.raw # "garbled" }

\* getThread is called; so is the thread that runs alone.
ThreadCalled ==
    /\ thread.pc = "start"
    /\ LET r == Called(Run(thread, sent), args)
           alone == Called(Run(thread2, sent2), args)
       IN thread' = r.thread /\ sent' = r.sent
          /\ thread2' = alone.thread /\ sent2' = alone.sent
    /\ UNCHANGED <<req, calls, warnings, req2, warnings2, cin, cout, otherVars, args, world, op>>

ThreadRequestStarts == ThreadAwaits /\ Start

ThreadRequestSettles == ThreadAwaits /\ Settle(ConcurrentOutcomes)

ThreadRequestBacksOff == ThreadAwaits /\ Backoff

\* request() returned a response to buildThread; the thread that runs
\* alone gets the same response.
ThreadTakesResponse ==
    /\ ThreadAwaits
    /\ req.pc = "done" /\ req.result.state = "fulfilled"
    /\ PageIndex(sent) <= MaxPages
    /\ \E engine \in Engines :
        \E response \in IF thread.pc = "root" THEN RootResponses ELSE Pages(PageIndex(sent)) :
            LET r == IF thread.pc = "root"
                     THEN AfterRoot(Run(thread, sent), args, response, engine)
                     ELSE AfterPage(Run(thread, sent), response, engine)
                alone == IF thread2.pc = "root"
                         THEN AfterRoot(Run(thread2, sent2), args, response, engine)
                         ELSE AfterPage(Run(thread2, sent2), response, engine)
            IN thread' = r.thread /\ sent' = r.sent
               /\ thread2' = alone.thread /\ sent2' = alone.sent
    /\ req' = Idle /\ calls' = <<>> /\ warnings' = <<>>
    /\ UNCHANGED <<req2, warnings2, cin, cout, otherVars, args, world, op>>

ThreadTakesFailure ==
    /\ ThreadAwaits
    /\ req.pc = "done" /\ req.result.state = "rejected"
    /\ LET r == AfterFailure(Run(thread, sent), req.result.error)
           alone == AfterFailure(Run(thread2, sent2), req.result.error)
       IN thread' = r.thread /\ sent' = r.sent
          /\ thread2' = alone.thread /\ sent2' = alone.sent
    /\ UNCHANGED <<req, calls, warnings, req2, warnings2, cin, cout, otherVars, args, world, op>>

\* The other operation is called while the thread is anywhere.
OtherCalled == CallOperation

\* request() of the other operation: its own retry(), attempt counter and
\* transport calls.
OtherRequestStarts ==
    /\ OperationAwaits
    /\ req2.pc = "idle"
    /\ req2' = [req2 EXCEPT !.pc = "fetch", !.attempt = 1]
    /\ UNCHANGED <<req, calls, warnings, warnings2, calls2, client, merge, transport, cin, cout,
                   threadVars>>

OtherRequestSettles ==
    /\ req2.pc = "fetch"
    /\ \E o \in ConcurrentOutcomes :
        /\ calls2' = Append(calls2, Call(o))
        /\ warnings2' = IF Warns(o) THEN Append(warnings2, Warning(req2.attempt, o))
                                     ELSE warnings2
        /\ req2' = AfterCall(req2, o)
    /\ transport' = CountCall(transport)
    /\ UNCHANGED <<req, calls, warnings, client, merge, cin, cout, threadVars>>

OtherRequestBacksOffOnSharedCounter ==
    /\ req2.pc = "backoff"
    /\ req2' = [req2 EXCEPT !.pc = "fetch", !.attempt = @ + 1]
    /\ req' = [req EXCEPT !.attempt = @ + 1]
    /\ UNCHANGED <<calls, warnings, warnings2, calls2, client, merge, transport, cin, cout,
                   threadVars>>

OtherRequestBacksOff ==
    /\ req2.pc = "backoff"
    /\ req2' = [req2 EXCEPT !.pc = "fetch", !.attempt = @ + 1]
    /\ UNCHANGED <<req, calls, warnings, warnings2, calls2, client, merge, transport, cin, cout,
                   threadVars>>

OtherTakesResponse ==
    /\ OperationAwaits
    /\ req2.pc = "done" /\ req2.result.state = "fulfilled"
    /\ \E response \in ResponsesTo(op.sent[Len(op.sent)]) :
        op' = IF op.pc = "first" THEN AfterFirst(op, response) ELSE AfterSecond(op, response)
    /\ req2' = Idle /\ calls2' = <<>> /\ warnings2' = <<>>
    /\ UNCHANGED <<req, calls, warnings, client, merge, transport, cin, cout, args, world,
                   thread, sent, thread2, sent2>>

OtherTakesFailure ==
    /\ OperationAwaits
    /\ req2.pc = "done" /\ req2.result.state = "rejected"
    /\ op' = OperationRejects(op, req2.result.error)
    /\ UNCHANGED <<req, calls, warnings, req2, warnings2, cin, cout, otherVars, args, world,
                   thread, sent, thread2, sent2>>

NextConcurrent ==
    \/ ThreadCalled \/ ThreadRequestStarts \/ ThreadRequestSettles \/ ThreadRequestBacksOff
    \/ ThreadTakesResponse \/ ThreadTakesFailure
    \/ OtherCalled \/ OtherRequestStarts \/ OtherRequestSettles \/ OtherRequestBacksOff
    \/ OtherTakesResponse \/ OtherTakesFailure

InitConcurrent ==
    /\ InitRequest /\ InitPair /\ InitClassifier /\ InitOneClient /\ InitMergeIdle
    /\ args = [tweetId |-> "t0", maxResults |-> 2, now |-> Now]
    /\ world = [rootIds |-> {"t0"}, rootConversations |-> {Null},
                rootTimes |-> {Absent},
                pageIds |-> {"t1"},
                pageTimes |-> {Absent}, includes |-> {TRUE},
                history |-> TRUE]
    /\ thread = NotStarted
    /\ sent = <<>>
    /\ thread2 = NotStarted
    /\ sent2 = <<>>
    /\ op = NoOperation

SpecConcurrent == InitConcurrent /\ [][NextConcurrent]_vars

(***************************************************************************)
(* Two executions of buildThread for seeds that differ only in the         *)
(* creation timestamp, against the same search pages                       *)
(***************************************************************************)

BothCalled ==
    /\ thread.pc = "start" /\ thread2.pc = "start"
    /\ LET r == Called(Run(thread, sent), args)
           r2 == Called(Run(thread2, sent2), args)
       IN thread' = r.thread /\ sent' = r.sent /\ thread2' = r2.thread /\ sent2' = r2.sent
    /\ UNCHANGED <<req, calls, warnings, req2, warnings2, cin, cout, otherVars, args, world, op>>

\* Both root requests succeed; the second seed has another created_at.
BothRootsResolve ==
    /\ thread.pc = "root" /\ thread2.pc = "root"
    /\ \E rootResponse \in RootResponses, at \in world.rootTimes, engine \in Engines :
        /\ IsSome(rootResponse.data.created_at) /\ IsSome(at)
        /\ LET r == AfterRoot(Run(thread, sent), args, rootResponse, engine)
               r2 == AfterRoot(Run(thread2, sent2), args,
                               [rootResponse EXCEPT !.data.created_at = at], engine)
           IN thread' = r.thread /\ sent' = r.sent
              /\ thread2' = r2.thread /\ sent2' = r2.sent
    /\ UNCHANGED <<req, calls, warnings, req2, warnings2, cin, cout, otherVars, args, world, op>>

\* Both pending search requests are answered with the same page.
BothPagesResolve ==
    /\ thread.pc = "search" /\ thread2.pc = "search"
    /\ PageIndex(sent) <= MaxPages
    /\ \E page \in Pages(PageIndex(sent)), engine \in Engines :
        LET r == AfterPage(Run(thread, sent), page, engine)
            r2 == AfterPage(Run(thread2, sent2), page, engine)
        IN thread' = r.thread /\ sent' = r.sent /\ thread2' = r2.thread /\ sent2' = r2.sent
    /\ UNCHANGED <<req, calls, warnings, req2, warnings2, cin, cout, otherVars, args, world, op>>

\* Both pending requests fail alike.
BothRequestsFail ==
    /\ thread.pc \in {"root", "search"} /\ thread2.pc = thread.pc
    /\ \E error \in RequestFailures :
        LET r == AfterFailure(Run(thread, sent), error)
            r2 == AfterFailure(Run(thread2, sent2), error)
        IN thread' = r.thread /\ sent' = r.sent /\ thread2' = r2.thread /\ sent2' = r2.sent
    /\ UNCHANGED <<req, calls, warnings, req2, warnings2, cin, cout, otherVars, args, world, op>>

NextThreadPair == BothCalled \/ BothRootsResolve \/ BothPagesResolve \/ BothRequestsFail

InitThreadPair ==
    /\ InitRequest /\ InitPair /\ InitClassifier /\ InitOneClient /\ InitMergeIdle
    /\ args \in [tweetId : {"t0"}, maxResults : {1, 2}, now : {Now}]
    /\ world = [rootIds |-> {"t0"}, rootConversations |-> {Null},
                rootTimes |-> {Some(RecentLate), Some(SevenDaysAgo), Some(SevenDaysAgo - 1)},
                pageIds |-> TweetIds,
                pageTimes |-> {Absent}, includes |-> {TRUE},
                history |-> TRUE]
    /\ thread = NotStarted
    /\ sent = <<>>
    /\ thread2 = NotStarted
    /\ sent2 = <<>>
    /\ op = NoOperation

SpecThreadPair == InitThreadPair /\ [][NextThreadPair]_vars

\* Threads against a server that answers every search request, for as long
\* as requests are made: only the request awaited is kept, not the history.
\* Every awaited request settles and the continuation of buildThread then
\* runs, which is the fairness of the steps of the thread.
InitLive ==
    /\ InitRequest /\ InitPair /\ InitClassifier /\ InitOneClient /\ InitMergeIdle
    /\ args \in [tweetId : {"t0"}, maxResults : {1, 2}, now : {Now}]
    /\ world = [rootIds |-> {"t0"}, rootConversations |-> {Null},
                rootTimes |-> {Absent},
                pageIds |-> TweetIds,
                pageTimes |-> {Absent, Some(RecentEarly)}, includes |-> {TRUE},
                history |-> FALSE]
    /\ thread = NotStarted
    /\ sent = <<>>
    /\ thread2 = NotStarted
    /\ sent2 = <<>>
    /\ op = NoOperation

SpecLive == InitLive /\ [][NextThread]_vars /\ WF_vars(NextThread)

(***************************************************************************)
(* Two executions of one logical request against transports that answer    *)
(* alike except for the rate-limit headers                                 *)
(***************************************************************************)

PairStart ==
    /\ req.pc = "idle" /\ req2.pc = "idle"
    /\ req' = [req EXCEPT !.pc = "fetch", !.attempt = 1]
    /\ req2' = [req2 EXCEPT !.pc = "fetch", !.attempt = 1]
    /\ UNCHANGED <<calls, warnings, warnings2, cin, cout, otherVars, threadVars>>

\* Both pending transport calls end the same way; the responses carry the
\* same status and body and any rate-limit headers.
PairSettle ==
    /\ req.pc = "fetch" /\ req2.pc = "fetch"
    /\ \E o \in Outcomes, h \in Headers :
        LET o2 == IF o.kind = "response" THEN [o EXCEPT !.headers = h] ELSE o IN
        /\ req' = AfterCall(req, o)
        /\ req2' = AfterCall(req2, o2)
        /\ warnings' = IF Warns(o) THEN Append(warnings, Warning(req.attempt, o))
                                   ELSE warnings
        /\ warnings2' = IF Warns(o2) THEN Append(warnings2, Warning(req2.attempt, o2))
                                     ELSE warnings2
    /\ UNCHANGED <<calls, cin, cout, otherVars, threadVars>>

PairBackoff ==
    /\ req.pc = "backoff" /\ req2.pc = "backoff"
    /\ req' = [req EXCEPT !.pc = "fetch", !.attempt = @ + 1]
    /\ req2' = [req2 EXCEPT !.pc = "fetch", !.attempt = @ + 1]
    /\ UNCHANGED <<calls, warnings, warnings2, cin, cout, otherVars, threadVars>>

NextPair == PairStart \/ PairSettle \/ PairBackoff

SpecPair == Init /\ [][NextPair]_vars

(***************************************************************************)
(* The error classifier on every non-2xx status and every error body       *)
(***************************************************************************)

InitClassify ==
    /\ InitRequest
    /\ InitPair
    /\ InitOneClient /\ InitMergeIdle
    /\ InitThreadIdle
    /\ op = NoOperation
    /\ cin \in [status : { x \in AllStatuses : ~Ok(x) }, body : ErrorBodies]
    /\ cout = NoError

Classify ==
    /\ cout = NoError
    /\ cout' = parseTwitterError(cin.status, cin.body)
    /\ UNCHANGED <<req, calls, warnings, req2, warnings2, cin, otherVars, threadVars>>

NextClassify == Classify

SpecClassify == InitClassify /\ [][NextClassify]_vars

(***************************************************************************)
(* Properties of the request executor                                      *)
(***************************************************************************)

\* The category the specification gives a non-2xx status.
StatedCategory(status) ==
    IF status = 429 \/ status \in 500..599 THEN "transient"
    ELSE IF status \in {401, 403} THEN "configuration"
    ELSE "permanent"

IsSuccess(o) == o.kind = "response" /\ o.status \in 200..299 /\ o.body.json
IsGarbled(o) == o.kind = "response" /\ o.status \in 200..299 /\ ~o.body.json
IsHttpFailure(o) == o.kind = "response" /\ o.status \notin 200..299
IsTransientHttp(o) == IsHttpFailure(o) /\ StatedCategory(o.status) = "transient"

\* The request raised the API failure of transport outcome o.
RaisedFailureOf(o) ==
    /\ req.pc = "done"
    /\ req.result.state = "rejected"
    /\ req.result.error.type = "TwitterApiError"
    /\ req.result.error.status = o.status
    /\ req.result.error.category = StatedCategory(o.status)

\* C1: a logical request makes at least 1 and at most 3 transport calls,
\* whatever the transport answers.
C1_AttemptsBetweenOneAndThree ==
    /\ Len(calls) <= 3
    /\ req.pc = "done" => Len(calls) >= 1

C1_Witness ==
    /\ req.pc = "done"
    /\ Len(calls) = 3
    /\ calls[1].status = 429 /\ calls[2].kind = "timeout" /\ calls[3].status = 500

\* C2: retrying halts on the first success: a 2xx response that parses is
\* the last transport call of the request, and the request returns its body.
C2_HaltsOnFirstSuccess ==
    \A i \in 1..Len(calls) :
        IsSuccess(calls[i]) =>
            /\ i = Len(calls)
            /\ req.pc = "done"
            /\ req.result.state = "fulfilled"
            /\ req.result.value = calls[i].body.raw

C2_Witness ==
    /\ req.pc = "done"
    /\ Len(calls) = 3
    /\ calls[1].status = 429 /\ calls[2].status = 503
    /\ IsSuccess(calls[3]) /\ req.result.value = "envelope2"

\* C3: a configuration (401, 403) or permanent (404, any other non-2xx that
\* is neither 429 nor 5xx) failure is never retried: it is the last
\* transport call, and the failure raised is that attempt's.
C3_NoRetryOfConfigurationOrPermanent ==
    \A i \in 1..Len(calls) :
        (IsHttpFailure(calls[i]) /\ ~IsTransientHttp(calls[i])) =>
            /\ i = Len(calls)
            /\ RaisedFailureOf(calls[i])

C3_Witness ==
    /\ req.pc = "done"
    /\ Len(calls) = 2
    /\ calls[1].status = 500 /\ calls[2].status = 403
    /\ req.result.error.category = "configuration"

\* C4: when all 3 attempts fail with transient failures, the failure raised
\* is the one of the third attempt: its status and category, whatever the
\* first two attempts failed with.
C4_LastFailureRaised ==
    (/\ req.pc = "done"
     /\ Len(calls) = 3
     /\ IsTransientHttp(calls[3]))
        => RaisedFailureOf(calls[3])

C4_Witness ==
    /\ req.pc = "done"
    /\ Len(calls) = 3
    /\ calls[1].status = 429 /\ calls[2].status = 500 /\ calls[3].status = 503
    /\ req.result.error.status = 503

\* C6: a timeout is treated as transient: the request goes on to another
\* attempt while attempts remain, ends with the TimeoutError when the third
\* attempt times out, and a later success makes the request succeed.
C6_TimeoutIsTransient ==
    /\ Len(calls) <= 3
    /\ \A i \in 1..Len(calls) :
        (calls[i].kind = "timeout" /\ i = Len(calls)) =>
            IF i < 3 THEN req.pc \in {"backoff", "fetch"}
            ELSE /\ req.pc = "done"
                 /\ req.result.state = "rejected"
                 /\ req.result.error.type = "TimeoutError"
    /\ (/\ Len(calls) > 0
        /\ IsSuccess(calls[Len(calls)])
        /\ \E i \in 1..Len(calls) : calls[i].kind = "timeout")
            => (req.pc = "done" /\ req.result.state = "fulfilled")

C6_Witness ==
    /\ req.pc = "done"
    /\ Len(calls) = 3
    /\ calls[1].kind = "timeout" /\ calls[2].kind = "timeout"
    /\ IsSuccess(calls[3]) /\ req.result.state = "fulfilled"

\* C7 as stated: an attempt is followed by another one only if it failed
\* with a failure classified transient (an API failure with a transient
\* status, or a timeout); a 2xx body that fails to parse and a rejection of
\* the transport are never retried.
C7_OnlyClassifiedTransientRetried ==
    \A i \in 1..Len(calls) :
        i < Len(calls) => (IsTransientHttp(calls[i]) \/ calls[i].kind = "timeout")

\* C7 amended: an attempt is followed by another one only if it failed with
\* a timeout, with an API failure classified transient, or with another
\* error (a 2xx body that fails to parse, a rejection of the transport) that
\* getErrorCategory classifies as transient.
C7_OnlyTransientRetried ==
    \A i \in 1..Len(calls) :
        (i < Len(calls) \/ req.pc \in {"backoff", "fetch"}) =>
            \/ IsTransientHttp(calls[i])
            \/ calls[i].kind = "timeout"
            \/ (IsGarbled(calls[i]) \/ calls[i].kind = "reject") /\ calls[i].generic = "transient"

C7_Witness ==
    /\ Len(calls) = 2
    /\ calls[1].kind = "reject" /\ calls[1].generic = "transient"
    /\ calls[2].status = 404

\* The attempts of the request that returned a response whose
\* remaining-quota header is present with a number below 3.
RECURSIVE StatedWarnings(_)
StatedWarnings(n) ==
    IF n = 0 THEN <<>>
    ELSE IF calls[n].kind = "response" /\ calls[n].headers.remaining \in {"0", "2"}
         THEN Append(StatedWarnings(n - 1),
                     [attempt |-> n, remaining |-> calls[n].headers.remaining,
                      resetAt |-> calls[n].headers.reset])
         ELSE StatedWarnings(n - 1)

\* C9: a low-quota warning is emitted for an attempt iff the attempt returned
\* a response (2xx or not) whose remaining-quota header is present with a
\* number below 3: once per such attempt, also when the response is a
\* failure, never for a timeout, an absent header or a value of 3 or more.
C9_WarningIffLowQuotaResponse ==
    warnings = StatedWarnings(Len(calls))

C9_Witness ==
    /\ req.pc = "done"
    /\ Len(warnings) = 3
    /\ calls[3].status = 500 /\ calls[3].headers.remaining = "0"

C8_HeadersDoNotAlterControlFlow ==
    /\ req.attempt = req2.attempt
    /\ req.pc = req2.pc
    /\ req.result = req2.result

C8_Witness ==
    /\ req.pc = "done" /\ req2.pc = "done"
    /\ req.attempt = 3
    /\ Len(warnings) = 3 /\ Len(warnings2) = 0
    /\ req.result.state = "fulfilled"

(***************************************************************************)
(* Properties of the thread builder                                        *)
(***************************************************************************)

NoDuplicateIds(tweets) ==
    \A i, j \in 1..Len(tweets) : i # j => tweets[i].id # tweets[j].id

\* C10: whatever the root response and the search pages are, the Thread
\* Result holds no two items with the same identifier; a page that returns
\* the seed adds no second copy of it.
C10_ThreadResultHasNoDuplicateIds ==
    thread.pc = "done" => NoDuplicateIds(thread.tweets)

\* The same for the threads whose root response carries the id asked for
\* (the id seenIds starts with).
NoDuplicateIdsWhenRootHasRequestedId ==
    (thread.pc = "done" /\ thread.tweets[1].id = args.tweetId)
        => NoDuplicateIds(thread.tweets)

HasTime(tweet) == IsSome(tweet.created_at)

NonDecreasing(tweets) ==
    \A i, j \in 1..Len(tweets) :
        (i < j /\ HasTime(tweets[i]) /\ HasTime(tweets[j]))
            => tweets[i].created_at[1] <= tweets[j].created_at[1]

\* C11: the items of the Thread Result are in non-decreasing order of
\* creation timestamp: any two items that both carry a timestamp are in
\* timestamp order, also when items without a timestamp lie between them.
C11_ResultNonDecreasingByTimestamp ==
    thread.pc = "done" => NonDecreasing(thread.tweets)

\* The same for the results whose items all carry a timestamp.
NonDecreasingWhenAllHaveTimestamps ==
    (thread.pc = "done" /\ \A i \in 1..Len(thread.tweets) : HasTime(thread.tweets[i]))
        => NonDecreasing(thread.tweets)

\* The position in the Thread Result of an item that was pushed.
PositionOf(tweet) == CHOOSE k \in 1..Len(thread.tweets) : thread.tweets[k] = tweet

KeepInsertionOrder(Alike(_, _)) ==
    \A i, j \in 1..Len(thread.pushed) :
        (i < j /\ Alike(thread.pushed[i], thread.pushed[j]))
            => PositionOf(thread.pushed[i]) < PositionOf(thread.pushed[j])

BothWithoutTime(a, b) == ~HasTime(a) /\ ~HasTime(b)
SameTime(a, b) == HasTime(a) /\ HasTime(b) /\ a.created_at[1] = b.created_at[1]
WithoutTimeOrSameTime(a, b) == BothWithoutTime(a, b) \/ SameTime(a, b)

\* C12: in the Thread Result the items without a creation timestamp keep
\* the order in which they were accumulated among themselves, and so do
\* the items with equal timestamps.
C12_InsertionOrderKept ==
    thread.pc = "done" => KeepInsertionOrder(WithoutTimeOrSameTime)

\* The first half alone: the items without a timestamp keep their order.
InsertionOrderKeptWithoutTime ==
    thread.pc = "done" => KeepInsertionOrder(BothWithoutTime)

\* The number of items of the Thread Result beyond the seed.
Discovered == Len(thread.tweets) - 1

HasCursor(page) == page.cursor # Null /\ page.cursor # ""

C14_HaltingRule ==
    LET cap == Min(args.maxResults, MAX_THREAD_TWEETS)
        halt == \/ thread.fetched >= cap
                \/ ~HasCursor(thread.page)
                \/ thread.page.items = 0
    IN /\ (thread.pc = "search" /\ thread.page.index >= 1)
            => (~halt /\ Len(sent) = thread.page.index + 2)
       /\ (thread.pc = "done" /\ thread.page.index >= 1)
            => (halt /\ Len(sent) = thread.page.index + 1)

C14_Witness ==
    /\ thread.pc = "done"
    /\ thread.page.index = 2
    /\ thread.page.items = 0
    /\ HasCursor(thread.page)
    /\ thread.fetched = 1
    /\ args.maxResults = 2

Seed ==
    LET items == IF thread.pc = "done" THEN thread.tweets ELSE thread.allTweets
    IN items[CHOOSE k \in 1..Len(items) : items[k].text = 0]

\* C17: the staleness advisory is present if and only if the seed has a
\* creation timestamp and the evaluation time is more than 604,800,000 ms
\* after it: none at exactly 604,800,000 ms, one at 604,800,001 ms, none
\* for a seed without a timestamp.
C17_AdvisoryIffOlderThanSevenDays ==
    thread.pc \in {"search", "done"} =>
        (thread.ageWarning # Null
            <=> (HasTime(Seed) /\ args.now - Seed.created_at[1] > 7 * 24 * 3600 * 1000))

C17_Witness ==
    /\ thread.pc = "done"
    /\ HasTime(Seed)
    /\ args.now - Seed.created_at[1] = 7 * 24 * 3600 * 1000 + 1
    /\ thread.ageWarning = AGE_WARNING

\* The boundary itself is reached: a seed of exactly seven days, no advisory.
SevenDaysExactlyReached ==
    /\ thread.pc = "done"
    /\ HasTime(Seed)
    /\ args.now - Seed.created_at[1] = 7 * 24 * 3600 * 1000
    /\ thread.ageWarning = Null

\* C19: buildThread moves through its phases in one direction: one root
\* fetch, answered before any search request; search requests one at a
\* time, each answered before the next; the sort after the last answer;
\* no request after the sort and no root fetch after the first request.
C19_PhasesInOrder ==
    /\ thread.pc = "start" => sent = <<>>
    /\ thread.pc = "root" => Len(sent) = 1
    /\ thread.pc = "search" => Len(sent) = thread.page.index + 2
    /\ thread.pc = "done" => Len(sent) = thread.page.index + 1
    /\ \A i \in 1..Len(sent) :
        IF i = 1 THEN sent[i] = RootRequest(args.tweetId)
                 ELSE sent[i].endpoint = "/tweets/search/recent"

C19_Witness ==
    /\ thread.pc = "done"
    /\ Len(sent) = 3
    /\ thread.page.index = 2

\* C15: pagination does not go on forever: whatever pages the server
\* answers with, buildThread eventually stops issuing search requests and
\* returns (or, when a request fails, rejects).
C15_EventuallyReturns == <>(thread.pc \in {"done", "failed"})

\* A page that carries a cursor and only identifiers seen before leaves
\* the locals of the loop as they were.
PageWithCursorAndNothingNew ==
    /\ thread.pc = "search"
    /\ thread.page.index >= 1
    /\ thread.page.added = 0
    /\ thread.page.items > 0
    /\ HasCursor(thread.page)

(***************************************************************************)
(* Properties of the paired threads                                        *)
(***************************************************************************)

\* An item but for the creation timestamp of the seed.
ButSeedTime(tweet) == IF tweet.text = 0 THEN [tweet EXCEPT !.created_at = Absent] ELSE tweet

ItemsButSeedTime(tweets) == { ButSeedTime(tweets[i]) : i \in 1..Len(tweets) }

\* C18: the staleness advisory does not change the operation: for two
\* seeds that differ only in the creation timestamp and the same search
\* pages, buildThread issues the same requests and accumulates the same
\* items; only the advisory (and the seed's timestamp) differ.
C18_AdvisoryDoesNotAlterTheThread ==
    /\ sent = sent2
    /\ thread.pc = thread2.pc
    /\ thread.fetched = thread2.fetched
    /\ thread.seenIds = thread2.seenIds
    /\ thread.nextToken = thread2.nextToken
    /\ thread.error = thread2.error
    /\ ItemsButSeedTime(thread.allTweets) = ItemsButSeedTime(thread2.allTweets)
    /\ Len(thread.tweets) = Len(thread2.tweets)

C18_Witness ==
    /\ thread.pc = "done" /\ thread2.pc = "done"
    /\ thread.ageWarning = Null /\ thread2.ageWarning = AGE_WARNING
    /\ Len(sent) = 3
    /\ Len(thread.tweets) = 3

(***************************************************************************)
(* Properties of the client                                                *)
(***************************************************************************)

RequestFailed == req.pc = "done" /\ req.result.state = "rejected"

\* The failure is the one of the last transport call: its status and the
\* category of that status, or the timeout.
FailureOfLastCall(error) ==
    LET last == calls[Len(calls)] IN
    /\ Len(calls) >= 1
    /\ error.type = "TwitterApiError"
        => (IsHttpFailure(last) /\ error.status = last.status
            /\ error.category = StatedCategory(last.status))
    /\ error.type = "TimeoutError" => last.kind = "timeout"

\* C20: no failure is swallowed and no partial result returned: when a
\* logical request of an operation has failed (after its retries), the
\* operation issues no further request and fails with that same failure,
\* status and category unchanged; a thread that fails on a search page
\* returns none of the items accumulated before.
C20_FailureIsRaisedUnchanged ==
    /\ [](op.pc = "failed"
            => (RequestFailed /\ op.error = req.result.error /\ op.result = NoResult
                /\ FailureOfLastCall(op.error)))
    /\ [](thread.pc = "failed"
            => (RequestFailed /\ thread.error = req.result.error
                /\ thread.tweets = <<>> /\ thread.allTweets = <<>>
                /\ FailureOfLastCall(thread.error)))
    /\ [](op.pc = "done" \/ thread.pc = "done" => ~RequestFailed)
    /\ [][RequestFailed
            => (/\ op'.pc = "failed" \/ thread'.pc = "failed"
                /\ op'.sent = op.sent /\ sent' = sent
                /\ calls' = calls /\ req' = req)]_vars

C20_Witness ==
    /\ thread.pc = "failed"
    /\ Len(sent) = 3
    /\ Len(calls) = 3
    /\ thread.error.type = "TwitterApiError"
    /\ thread.error.status = 503

\* The same for a two-step operation failing on its second request.
SecondRequestFailureReached ==
    /\ op.pc = "failed"
    /\ op.name = "getReplies"
    /\ Len(op.sent) = 2
    /\ op.error.status = 404

(***************************************************************************)
(* Properties of the includes merge                                        *)
(***************************************************************************)

Merged == merge.pc = "out"

\* The primary items of a response, as a sequence.
PrimaryItems(fn, response) ==
    IF fn = "mergeSingleTweet" THEN <<response.data>>
    ELSE IF IsSome(response.data) THEN response.data[1] ELSE <<>>

UsersOf(response) ==
    IF IsSome(response.includes) /\ IsSome(response.includes[1].users)
    THEN response.includes[1].users[1] ELSE <<>>

TweetsOf(response) ==
    IF IsSome(response.includes) /\ IsSome(response.includes[1].tweets)
    THEN response.includes[1].tweets[1] ELSE <<>>

Elements(q) == { q[i] : i \in 1..Len(q) }

Ids(q) == { q[i].id : i \in 1..Len(q) }

DistinctIds(q) == \A i, j \in 1..Len(q) : q[i].id = q[j].id => i = j

\* C22: the merge is idempotent and order-independent: merging a response
\* twice gives identical Enriched Items, and so does merging the response
\* with its includes' users and tweets in any other order, entries that
\* share an id included.
C22_MergeIdempotentAndOrderIndependent ==
    Merged => (merge.again = merge.out /\ merge.outReordered = merge.out)

\* What holds of the code: the second merge gives the items of the first,
\* and the order of the includes is without effect when no two included
\* users and no two included tweets share an id.
MergeOrderIndependentForDistinctIds ==
    Merged =>
        /\ merge.again = merge.out
        /\ (DistinctIds(UsersOf(merge.response[1])) /\ DistinctIds(TweetsOf(merge.response[1])))
            => merge.outReordered = merge.out

\* C23: the merge mutates neither the includes nor the primary items: after
\* the call the response is what it was, and no item returned is one of the
\* response's primary items.
C23_MergeLeavesResponseUnchanged ==
    Merged =>
        /\ merge.after = merge.response
        /\ \A i \in 1..Len(merge.out) :
            merge.out[i] \notin Elements(PrimaryItems(merge.fn, merge.after[1]))

C23_Witness ==
    /\ Merged /\ merge.fn = "mergeTweetList"
    /\ Len(merge.out) = 2
    /\ IsSome(merge.out[1].author)
    /\ Len(TweetsOf(merge.response[1])) = 2

ZeroItems ==
    /\ merge.fn = "mergeTweetList"
    /\ Len(PrimaryItems(merge.fn, merge.response[1])) = 0

\* C24: a list response without data and one with an empty data list are
\* both zero items and no error: mergeTweetList returns the empty sequence
\* whatever the includes hold, and buildThread, given such a page, adds
\* nothing to the accumulator, asks for no further page and returns.
C24_AbsentAndEmptyDataAreZeroItems ==
    /\ (Merged /\ ZeroItems) => merge.out = <<>>
    /\ (ZeroItems /\ thread.page.index = 1) =>
        /\ thread.pc = "done" /\ thread.error = NoError
        /\ thread.page.items = 0 /\ thread.page.added = 0 /\ thread.fetched = 0
        /\ thread.pushed = AwaitsFirstPage(args).thread.allTweets
        /\ thread.tweets = thread.pushed
        /\ sent = AwaitsFirstPage(args).sent

C24_Witness ==
    /\ Merged /\ ZeroItems
    /\ ~IsSome(merge.response[1].data)
    /\ Len(UsersOf(merge.response[1])) = 2
    /\ thread.page.index = 1 /\ thread.page.cursor = "c1"
    /\ thread.pc = "done"

EmptyDataPageReached ==
    /\ Merged /\ ZeroItems
    /\ IsSome(merge.response[1].data)
    /\ thread.page.index = 1 /\ thread.page.cursor = "c1"

\* The id of the first reference of an item, if it has one.
FirstReference(item) ==
    IF IsSome(item.referenced_tweets) /\ Len(item.referenced_tweets[1]) > 0
    THEN Some(item.referenced_tweets[1][1].id) ELSE Absent

\* C25: the author of an Enriched Item is an included user whose id is the
\* item's author_id, present exactly when the item has an author_id and the
\* includes hold a user of that id; its referenced_tweet_data is an included
\* tweet whose id is the id of the item's first reference, present exactly
\* when the item has a first reference and the includes hold a tweet of
\* that id, whatever a later reference would resolve to.
C25_AuthorAndFirstReferenceResolved ==
    Merged =>
        LET response == merge.response[1]
            items == PrimaryItems(merge.fn, response)
        IN /\ Len(merge.out) = Len(items)
           /\ \A i \in 1..Len(items) :
                LET item == items[i]
                    enriched == merge.out[i]
                    first == FirstReference(item)
                IN /\ enriched.id = item.id
                   /\ IsSome(enriched.author) <=>
                        (item.author_id # Null /\ item.author_id \in Ids(UsersOf(response)))
                   /\ IsSome(enriched.author) =>
                        /\ enriched.author[1].id = item.author_id
                        /\ enriched.author[1] \in Elements(UsersOf(response))
                   /\ IsSome(enriched.referenced_tweet_data) <=>
                        (IsSome(first) /\ first[1] \in Ids(TweetsOf(response)))
                   /\ IsSome(enriched.referenced_tweet_data) =>
                        /\ enriched.referenced_tweet_data[1].id = first[1]
                        /\ enriched.referenced_tweet_data[1] \in Elements(TweetsOf(response))

\* An item without author_id among included users, whose first reference
\* does not resolve while its second would.
C25_Witness ==
    /\ Merged /\ merge.fn = "mergeSingleTweet"
    /\ merge.response[1].data.author_id = Null
    /\ Len(UsersOf(merge.response[1])) > 0
    /\ merge.response[1].data.referenced_tweets = Some(<<Reference("r9"), Reference("r1")>>)
    /\ "r1" \in Ids(TweetsOf(merge.response[1]))
    /\ ~IsSome(merge.out[1].author)
    /\ ~IsSome(merge.out[1].referenced_tweet_data)

ResolvedItemReached ==
    /\ Merged /\ merge.fn = "mergeSingleTweet"
    /\ IsSome(merge.out[1].author) /\ IsSome(merge.out[1].referenced_tweet_data)

(***************************************************************************)
(* Properties of the public operations and of the client                   *)
(***************************************************************************)

TwoStep == op.name \in {"getTimeline", "getReplies"}

\* The second request as the first response determines it.
BuiltFromFirst(request, name, arg, first) ==
    IF name = "getTimeline"
    THEN request.endpoint = "/users/:id/tweets" /\ request.id = first.data.id
    ELSE /\ request.endpoint = "/tweets/search/recent"
         /\ request.query = (IF first.data.conversation_id # Null
                              THEN first.data.conversation_id ELSE first.data.id)
         /\ request.in_reply_to = arg

TimelineSecondRequestReached ==
    /\ op.name = "getTimeline" /\ op.pc = "second" /\ req.pc = "fetch"
    /\ op.sent[2].id = "u2"

\* result_count of the metadata of a list response, 0 without metadata.
ReportedCount(response) ==
    IF response.meta = Absent THEN 0 ELSE response.meta[1].result_count

\* C27: searchRecent makes one logical request; its result carries the
\* query of the caller, the merged items of the response and resultCount =
\* meta.result_count of the response, or 0 without metadata, whatever the
\* number of items. getReplies reports resultCount of its second response
\* by the same rule.
C27_SearchResultCarriesQueryAndReportedCount ==
    /\ op.name = "searchRecent" =>
        /\ Len(op.sent) = 1
        /\ op.sent[1].endpoint = "/tweets/search/recent" /\ op.sent[1].query = op.arg
        /\ op.pc = "done" =>
            /\ Len(op.received) = 1
            /\ op.result.query = op.arg
            /\ op.result.tweets = mergeTweetList(op.received[1])
            /\ op.result.resultCount = ReportedCount(op.received[1])
    /\ (op.name = "getReplies" /\ op.pc = "done") =>
        /\ op.result.tweets = mergeTweetList(op.received[2])
        /\ op.result.resultCount = ReportedCount(op.received[2])

\* A search answered with one item and a reported count of 5.
C27_Witness ==
    /\ op.name = "searchRecent" /\ op.pc = "done"
    /\ Len(op.result.tweets) = 1
    /\ op.result.resultCount = 5

SearchWithoutMetaReached ==
    /\ op.name = "searchRecent" /\ op.pc = "done"
    /\ Len(op.result.tweets) = 1 /\ op.received[1].meta = Absent
    /\ op.result.resultCount = 0

RepliesCountReached ==
    /\ op.name = "getReplies" /\ op.pc = "done"
    /\ Len(op.result.tweets) = 0 /\ op.result.resultCount = 5

\* C28: every transport call of the client carries Authorization: Bearer
\* <token> with the token the client was constructed with, retries and page
\* requests of a thread included, and the token of the client never changes.
C28_EveryCallCarriesTheBearerToken ==
    /\ [](/\ client \in { createXApiClient(config) : config \in Configs }
          /\ \A i \in 1..Len(calls) :
                /\ calls[i].authorization.scheme = "Bearer"
                /\ calls[i].authorization.token = client.bearerToken)
    /\ [][client' = client]_vars

\* The third transport call of a request for a later page of a thread, on a
\* client constructed with the second token.
C28_Witness ==
    /\ client.bearerToken = "tokenB"
    /\ thread.pc = "search" /\ PageIndex(sent) = 2
    /\ Len(calls) = 3
    /\ calls[3].authorization.token = "tokenB"

\* The operation or the thread takes the response of its request.
TakesResponse ==
    \/ op' # op /\ op'.pc \in {"second", "done"}
    \/ thread' # thread /\ thread.pc \in {"root", "search"} /\ thread'.pc # "failed"

GarbledThenParsedReached ==
    /\ req.pc = "done" /\ req.result.state = "fulfilled"
    /\ Len(calls) = 2 /\ IsGarbled(calls[1])

(***************************************************************************)
(* Properties of the page size                                             *)
(***************************************************************************)

RemainingCap == Min(args.maxResults, 200) - thread.fetched

\* C30: every search request asks for max_results = max(min(100, cap -
\* fetched), 10) with cap = min(maxResults, 200) and fetched the number of
\* items accumulated after the seed: between 10 and 100, the remaining cap
\* when that is between 10 and 100, and 10 when it is below 10.
C30_PageSizeBetweenFloorAndLimit ==
    thread.pc = "search" =>
        LET asked == sent[Len(sent)].max_results IN
        /\ thread.cap = Min(args.maxResults, 200)
        /\ thread.fetched = Len(thread.allTweets) - 1
        /\ asked = Max(Min(100, RemainingCap), 10)
        /\ asked >= 10 /\ asked <= 100
        /\ (RemainingCap >= 10 /\ RemainingCap <= 100) => asked = RemainingCap
        /\ RemainingCap < 10 => asked = 10
        /\ RemainingCap > 100 => asked = 100

\* Two items in, nine to go: the request asks for ten.
C30_Witness ==
    /\ thread.pc = "search" /\ args.maxResults = 11 /\ thread.fetched = 2
    /\ sent[Len(sent)].max_results = 10

PageLimitReached ==
    /\ thread.pc = "search" /\ args.maxResults = 101 /\ thread.fetched = 1
    /\ sent[Len(sent)].max_results = 100

CapOfTwoHundredReached ==
    /\ thread.pc = "search" /\ args.maxResults = 250 /\ thread.fetched = 2
    /\ RemainingCap = 198 /\ sent[Len(sent)].max_results = 100

(***************************************************************************)
(* Properties of concurrent operations                                     *)
(***************************************************************************)

\* The state of getThread and of the request it has in flight, and the
\* state of the other operation and of the request it has in flight.
threadState == <<thread, sent, req, calls, warnings>>
otherState == <<op, req2, calls2, warnings2>>

\* The operation as it is when it runs alone and receives the responses,
\* and the failure, this one received.
OperationAlone(o) ==
    LET called == [NoOperation EXCEPT !.name = o.name, !.arg = o.arg,
                                      !.maxResults = o.maxResults, !.pc = "first",
                                      !.sent = <<FirstRequest(o.name, o.arg, o.maxResults)>>]
        one == IF Len(o.received) >= 1 THEN AfterFirst(called, o.received[1]) ELSE called
        two == IF Len(o.received) >= 2 THEN AfterSecond(one, o.received[2]) ELSE one
    IN IF o.pc = "failed" THEN OperationRejects(two, o.error) ELSE two

\* The attempt counter of a request counts the transport calls of that
\* request and of no other.
CountsOwnCalls(r, transportCalls) ==
    /\ r.pc = "idle" => (r.attempt = 0 /\ Len(transportCalls) = 0)
    /\ r.pc = "fetch" => r.attempt = Len(transportCalls) + 1
    /\ r.pc \in {"backoff", "done"} => r.attempt = Len(transportCalls)
    /\ r.attempt <= maxAttempts

BothDoneReached ==
    /\ thread.pc = "done" /\ Len(thread.tweets) = 2
    /\ op.pc = "done" /\ op.name = "getReplies"

(***************************************************************************)
(* Properties of the requests of a thread                                  *)
(***************************************************************************)

\* The number of search requests the thread has issued, and the k-th.
SearchRequests == IF Len(sent) = 0 THEN 0 ELSE Len(sent) - 1
SearchRequestNo(k) == sent[k + 1]

\* The grouping identifier of the seed: its conversation_id, or else its id.
GroupOfSeed == IF Seed.conversation_id # Null THEN Seed.conversation_id ELSE Seed.id

\* C31: the first search request of a thread carries no next_token, every
\* later one carries the cursor of the page before it (page k - 1 of the
\* model carries cursor k - 1 or none), and every search request asks for
\* the conversation of the seed: its conversation_id, or else its own id.
C31_CursorOfThePrecedingPage ==
    /\ \A k \in 1..SearchRequests :
        /\ SearchRequestNo(k).endpoint = "/tweets/search/recent"
        /\ SearchRequestNo(k).next_token = (IF k = 1 THEN Null ELSE Tokens[k - 1])
    /\ (thread.pc = "search" /\ thread.page.index >= 1) =>
        /\ thread.page.index = SearchRequests - 1
        /\ HasCursor(thread.page)
        /\ SearchRequestNo(SearchRequests).next_token = thread.page.cursor
    /\ thread.pc \in {"search", "done"} =>
        \A k \in 1..SearchRequests : SearchRequestNo(k).query = GroupOfSeed

\* The third search request of a thread whose seed has no conversation_id
\* and another id than the one asked for.
C31_Witness ==
    /\ thread.pc = "search" /\ SearchRequests = 3
    /\ SearchRequestNo(3).next_token = "c2"
    /\ Seed.conversation_id = Null /\ Seed.id # args.tweetId
    /\ SearchRequestNo(3).query = Seed.id

ConversationOfSeedReached ==
    /\ thread.pc = "search" /\ SearchRequests = 2
    /\ Seed.conversation_id = "conv" /\ SearchRequestNo(2).query = "conv"

\* The logical requests issued so far by the operation or the thread.
LogicalRequests == IF thread.pc # "start" THEN Len(sent) ELSE Len(op.sent)

\* C32: the budget of three attempts belongs to the logical request: every
\* request starts at attempt 1 whatever the requests before it used, so the
\* transport calls of an operation are at most 3 per request issued, at most
\* 6 for a two-step operation and at most 3 * (1 + p) for a thread that
\* issued p search requests.
C32_RetryBudgetPerLogicalRequest ==
    /\ CountsOwnCalls(req, calls)
    /\ transport <= 3 * LogicalRequests
    /\ op.pc # "idle" => (Len(op.sent) <= 2 /\ transport <= 6)
    /\ thread.pc # "start" => transport <= 3 * (1 + SearchRequests)
    /\ req.pc # "idle" => transport <= 3 * (LogicalRequests - 1) + Len(calls)

C32_Witness ==
    /\ op.name = "getTimeline" /\ op.pc = "done" /\ transport = 6

SecondRequestStartsAfresh ==
    /\ op.name = "getReplies" /\ Len(op.sent) = 2
    /\ transport = 3 /\ req.pc = "fetch" /\ req.attempt = 1

ThreadUsesEveryBudget ==
    /\ thread.pc = "done" /\ SearchRequests = 2 /\ transport = 9

(***************************************************************************)
(* Properties of the overshoot                                             *)
(***************************************************************************)

Cap == Min(args.maxResults, 200)

\* The last page handled held no more items than its request asked for.
LastPageWithinRequest ==
    thread.page.index >= 1 => thread.page.items <= sent[thread.page.index + 1].max_results

\* C33 as stated: when every page holds at most max_results items, the
\* Thread Result holds at most cap + 9 discovered items, cap =
\* min(maxResults, 200), and more than cap only when the remaining cap
\* before the last page was below 10.
C33_OvershootAtMostNine ==
    (thread.pc = "done" /\ LastPageWithinRequest) =>
        /\ Discovered <= Cap + 9
        /\ Discovered > Cap => Cap - (Discovered - thread.page.added) < 10

\* C33 amended: the bound is cap + 9 for a cap of 0 or more; below that the
\* Thread Result holds no discovered item, which is more than cap + 9 when
\* maxResults is below -9.
C33_OvershootAtMostNineAboveZero ==
    (thread.pc \in {"search", "done"} /\ LastPageWithinRequest) =>
        /\ thread.fetched <= Max(Cap, 0) + 9
        /\ thread.pc = "done" => Discovered = thread.fetched
        /\ Cap <= 0 => thread.fetched = 0
        /\ (thread.fetched > Cap /\ Cap > 0) =>
            /\ thread.page.index >= 1
            /\ Cap - (thread.fetched - thread.page.added) < 10
            /\ Cap - (thread.fetched - thread.page.added) > 0
            /\ sent[thread.page.index + 1].max_results = 10

\* A cap of 1 and a page of ten new items: ten discovered items.
C33_Witness ==
    /\ thread.pc = "done" /\ args.maxResults = 1 /\ Discovered = 10 /\ thread.page.added = 10

OvershootAfterSecondPage ==
    /\ thread.pc = "done" /\ args.maxResults = 12 /\ Discovered = 21
    /\ thread.page.index = 2 /\ thread.page.added = 10

NothingBelowZero ==
    /\ thread.pc = "done" /\ args.maxResults = 0 - 10 /\ Discovered = 0

(***************************************************************************)
(* Properties of the deduplication                                         *)
(***************************************************************************)

\* The items accumulated, in the order they were pushed.
Accumulated == IF thread.pc = "done" THEN thread.pushed ELSE thread.allTweets

SeedEntries == { k \in 1..Len(Accumulated) : Accumulated[k].id = Seed.id }

\* The seed is there once, and as the root response gave it.
SeedOnce ==
    /\ Cardinality(SeedEntries) = 1
    /\ \A k \in SeedEntries : Accumulated[k].text = 0
    /\ thread.pc = "done" =>
        Cardinality({ k \in 1..Len(thread.tweets) : thread.tweets[k].id = Seed.id }) = 1

\* A page leaves the items accumulated before it as they were, and adds
\* only items of its own whose id was not there.
PageKeepsFirstVersions ==
    LET before == thread.allTweets
        after == IF thread'.pc = "done" THEN thread'.pushed ELSE thread'.allTweets
    IN /\ Len(after) >= Len(before)
       /\ SubSeq(after, 1, Len(before)) = before
       /\ \A i \in (Len(before) + 1)..Len(after) :
            /\ after[i].text = PageIndex(sent)
            /\ \A j \in 1..(i - 1) : after[j].id # after[i].id

\* C34: of the items with one identifier the Thread Result holds the one
\* seen first in request order; the seed's entry is the enrichment of the
\* root response, never the version a search page returned, and the seed
\* is in the Thread Result exactly once.
C34_FirstOccurrenceWins ==
    /\ [](thread.pc \in {"search", "done"} => SeedOnce)
    /\ [][(thread.pc = "search" /\ thread'.pc \in {"search", "done"})
            => PageKeepsFirstVersions]_vars

\* The same for the threads whose root response carries the id asked for.
FirstOccurrenceWinsWhenRootHasRequestedId ==
    /\ []((thread.pc \in {"search", "done"} /\ Seed.id = args.tweetId) => SeedOnce)
    /\ [][(thread.pc = "search" /\ thread'.pc \in {"search", "done"}
            /\ Seed.id = args.tweetId)
            => PageKeepsFirstVersions]_vars

SeedReturnedBySearchSkipped ==
    /\ thread.pc = "done" /\ Seed.id = args.tweetId
    /\ thread.page.items = 2 /\ thread.page.added = 1 /\ Len(thread.tweets) = 2

(***************************************************************************)
(* Properties of the sort as a rearrangement                               *)
(***************************************************************************)

Occurrences(q, x) == Cardinality({ i \in 1..Len(q) : q[i] = x })

\* b holds the items of a, each as often as a does.
Rearranged(a, b) ==
    /\ Len(a) = Len(b)
    /\ \A i \in 1..Len(a) : Occurrences(b, a[i]) = Occurrences(a, a[i])

\* C35: the items of the Thread Result are the items accumulated before the
\* sort, the seed and every item added during pagination, rearranged: none
\* lost, none added, 1 + the number of items added in all.
C35_SortLosesAndAddsNothing ==
    thread.pc = "done" =>
        /\ Rearranged(thread.pushed, thread.tweets)
        /\ thread.tweets = thread.allTweets
        /\ thread.pushed[1].text = 0
        /\ Len(thread.pushed) = 1 + thread.fetched
        /\ Len(thread.tweets) = 1 + thread.fetched

\* Four items that the sort put in another order.
C35_Witness ==
    /\ thread.pc = "done" /\ Len(thread.tweets) = 4 /\ thread.fetched = 3
    /\ thread.tweets # thread.pushed
    /\ thread.tweets[1].text # 0

(***************************************************************************)
(* Properties of a cap of zero or less                                     *)
(***************************************************************************)

\* C36: with maxResults <= 0 buildThread issues the root request and no
\* search request, and its Thread Result holds the seed alone, with the
\* advisory if the seed is older than seven days.
C36_NoSearchWithoutCap ==
    args.maxResults <= 0 =>
        /\ thread.pc \in {"start", "root", "done", "failed"}
        /\ Len(sent) <= 1
        /\ \A k \in 1..Len(sent) : sent[k] = RootRequest(args.tweetId)
        /\ thread.pc = "done" =>
            /\ Len(sent) = 1
            /\ Len(thread.tweets) = 1
            /\ thread.tweets[1].text = 0
            /\ thread.tweets[1].id \in world.rootIds
            /\ thread.fetched = 0
            /\ thread.ageWarning # Null
                <=> (HasTime(Seed) /\ args.now - Seed.created_at[1] > 7 * 24 * 3600 * 1000)

\* A stale seed and a limit of zero: the seed and the advisory.
C36_Witness ==
    /\ thread.pc = "done" /\ args.maxResults = 0
    /\ Len(sent) = 1 /\ Len(thread.tweets) = 1 /\ thread.ageWarning # Null

SeedAloneBelowZero ==
    /\ thread.pc = "done" /\ args.maxResults < 0
    /\ Len(sent) = 1 /\ Len(thread.tweets) = 1 /\ thread.ageWarning = Null

(***************************************************************************)
(* Properties of the merge of a list                                       *)
(***************************************************************************)

SamePrimaryFields(enriched, item) ==
    /\ enriched.id = item.id /\ enriched.text = item.text
    /\ enriched.author_id = item.author_id
    /\ enriched.conversation_id = item.conversation_id
    /\ enriched.created_at = item.created_at
    /\ enriched.referenced_tweets = item.referenced_tweets

ListMerged == Merged /\ merge.fn = "mergeTweetList" /\ IsSome(merge.response[1].data)

\* C37: mergeTweetList preserves the list: the output is as long as data,
\* its i-th item has the identifier and the primary fields of the i-th item
\* of data and is resolved against the includes of that response, as the
\* item alone would be; the items a page adds to a thread are items of that
\* output, resolved against the page's includes and never against the
\* includes of the root response.
C37_MergeTweetListPreservesTheList ==
    ListMerged =>
        LET response == merge.response[1]
            data == response.data[1]
        IN /\ Len(merge.out) = Len(data)
           /\ \A i \in 1..Len(data) :
                /\ SamePrimaryFields(merge.out[i], data[i])
                /\ merge.out[i]
                    = mergeSingleTweet([data |-> data[i], includes |-> response.includes])
                /\ IsSome(merge.out[i].author) =>
                    merge.out[i].author[1] \in Elements(UsersOf(response))
                /\ IsSome(merge.out[i].referenced_tweet_data) =>
                    merge.out[i].referenced_tweet_data[1] \in Elements(TweetsOf(response))
           /\ thread.page.index = 1 =>
                /\ Accumulated[1] = AwaitsFirstPage(args).thread.allTweets[1]
                /\ Accumulated[1].author = Some(User("u1", "root"))
                /\ Len(Accumulated) = 1 + Cardinality(Ids(data))
                /\ \A k \in 2..Len(Accumulated) :
                    /\ \E i \in 1..Len(merge.out) :
                        /\ merge.out[i] = Accumulated[k]
                        /\ \A j \in 1..(i - 1) : merge.out[j].id # merge.out[i].id
                    /\ IsSome(Accumulated[k].author) =>
                        Accumulated[k].author[1] \in Elements(UsersOf(response))

\* A page of two items by u1 whose includes hold no user: the thread has
\* them without an author, next to a seed by u1 with its author.
C37_Witness ==
    /\ ListMerged /\ thread.page.index = 1 /\ Len(Accumulated) = 3
    /\ Len(UsersOf(merge.response[1])) = 0
    /\ Accumulated[2].author_id = "u1" /\ ~IsSome(Accumulated[2].author)
    /\ IsSome(Accumulated[1].author)

AuthorOfThePageReached ==
    /\ ListMerged /\ thread.page.index = 1 /\ Len(Accumulated) = 3
    /\ Accumulated[2].author = Some(User("u1", "b"))
    /\ ~IsSome(Accumulated[3].author)

\* In a thread of several pages, whose response k includes the user u1
\* under the name k: every item has the author its own response included.
AuthorsOfOwnResponse ==
    thread.pc \in {"search", "done"} =>
        \A k \in 1..Len(Accumulated) :
            IsSome(Accumulated[k].author) =>
                Accumulated[k].author[1] = User("u1", Accumulated[k].text)

AuthorsOfThreePagesReached ==
    /\ thread.pc = "done" /\ Len(Accumulated) = 3
    /\ Accumulated[2].author = Some(User("u1", 1))
    /\ Accumulated[3].author = Some(User("u1", 2))

====
